---- MODULE Spec2Model ----
(***************************************************************************)
(* Job orchestrator of narrio (src/app.py, src/tts/engine.py): the job and *)
(* book registries, the conversion workers, the chapter semaphore and the  *)
(* cancel requests, as an interleaving of lock-sized steps.                *)
(*                                                                         *)
(* A step is one critical section under jobs_lock or books_lock, or one    *)
(* file-system operation.  Python code between two such points only reads  *)
(* or writes thread-local data and is folded into the step that follows.   *)
(***************************************************************************)
EXTENDS Integers, Sequences, FiniteSets, TLC

(* ------------------------------------------------------------------ *)
(* Program constants and bounds of the model                           *)
(* ------------------------------------------------------------------ *)
MAX_CONCURRENT_CHAPTERS == 3
MAX_TOTAL_WORDS == 500000
\* config.FREE_PAGE_LIMIT: the free-tier page cap, "default 50 pages"
FREE_PAGE_LIMIT == 50
\* chapter_splitter: the largest written-out number of WORD_TO_NUM, and the
\* bound of _roman_to_int
THIRTY == 30
ROMAN_LIMIT == 200

\* Spec: jobs that can be created, chapters of the book
MaxJobs == 2
NumChapters == 1
\* SpecSem: chapters of the book, one more than the semaphore has permits
SemChapters == 4
\* SpecCancel: chapters of the book that is cancelled
CancelChapters == 3
\* text of a conversion: segments between pause markers, audio chunks of a segment
MaxSegments == 2
MaxChunks == 1
\* request handlers that are between two of their steps at the same moment
MaxInflight == 1
\* convert_all requests (each creates its own semaphore), cancel-book requests
MaxConvertAll == 1
MaxCancelBook == 1
\* SpecSem: convert_chapter requests beside the convert_all request
MaxConvertChapter == 1
\* SpecClient: polls of the progress stream
MaxPolls == 2
\* SpecWords: chapters of the book, and the smaller of the two word counts that
\* a chapter can have (the other is one more)
WordsChapters == 2
HalfLimit == 250000
\* SpecRace: request handlers in flight at the same time
MaxRacing == 2
\* SpecGate: jobs that can be created
GateJobs == 1
\* SpecNumbers: the largest number whose Roman numeral is parsed
MaxRoman == 400
\* SpecClean: the length of the texts that are normalized
MaxText == 4
\* SpecChapters: the pages of the short documents, and of the long ones
MaxPages == 3
LongDoc == 41
\* SpecChapters: the entries of a table of contents or outline, the items of a
\* spine and the segments of a manual assignment that are enumerated
MaxEntries == 3
MaxItems == 2
MaxManual == 2
\* SpecChapters: the longest list of spine items and of manual segments
LongList == 62
\* chapters with a job in the loop of api_cancel_book
MaxCancelled == 2
\* pieces of a text around its pause markers
MaxPieces == 3
\* audio chunks in the stream of a segment
MaxStream == 2
\* SpecChunks: the pages of the longest document
MaxChunkPages == 83
\* SpecToc: the pages of the short documents, and the pages of signals after an
\* anchor page
MaxTocDoc == 3
MaxContinuation == 9

VARIABLES
    lim,        \* scenario limits fixed by Init: [jobs, chapters, segs, chunks, ...]
    jobs,       \* the job registry: sequence of job records, job id = index
    thr,        \* the worker thread of each job: [kind, ch, sem, pc, nseg, holds]
    files,      \* the output file of each job: [exists, data]
    uploads,    \* whether the temporary upload of each job exists
    book,       \* the book: [state, chapters]; chapters[c] = [job_id, status]
    sems,       \* the semaphores created by convert_all requests, id = index
    cancelReq,  \* jobs with an api_cancel request between its check and its write
    cancelBook, \* api_cancel_book: [idx, phase, n], idx = 0 when idle, n requests so far
    convCh,     \* chapters with an api_convert_chapter request past its check
    convAll,    \* api_convert_all_chapters in flight: [idx, sem]
    hist,       \* history of each job: [obs, late, errc]
    rd,         \* the read requests of the client: [stream, dl]
    req,        \* the last submission that was answered: [op, user, result, ...]
    an          \* the analyzer function under study: its input and its result

vars == <<lim, jobs, thr, files, uploads, book, sems, cancelReq, cancelBook,
          convCh, convAll, hist, rd, req, an>>

Jobs == 1..Len(jobs)

\* request handlers that have started and not yet returned
Inflight ==
    Cardinality(cancelReq) + Cardinality(convCh)
    + (IF cancelBook.idx # 0 THEN 1 ELSE 0) + (IF convAll.idx # 0 THEN 1 ELSE 0)
CanStart == Inflight < lim.inflight

\* api_convert_chapter requests so far: those past their check and their jobs
ChapterRequests ==
    Cardinality(convCh) + Cardinality({j \in Jobs : thr[j].kind \in {"chapter", "none"}})

\* a job id is left for a new job (ids reserved by requests past their check)
CanCreate == Len(jobs) + Cardinality(convCh) < lim.jobs
Chapters == 1..lim.chapters

Terminal == {"completed", "cancelled", "error"}

(* ------------------------------------------------------------------ *)
(* Records                                                             *)
(* ------------------------------------------------------------------ *)
\* the job record built by api_convert / api_convert_chapter / convert_all
NewJob(msg) ==
    [status |-> "processing", progress |-> 0, message |-> msg,
     output_file |-> FALSE]

NewThread(kind, ch, sem, pc0) ==
    [kind |-> kind, ch |-> ch, sem |-> sem, pc |-> pc0, nseg |-> 0,
     holds |-> FALSE]

NoFile == [exists |-> FALSE, data |-> <<>>]

\* obs: the worker saw the cancellation in update_progress or in the final check;
\* late: audio chunks appended while the status was cancelled;
\* errc: the worker caught an exception while the status was cancelled
NewHist == [obs |-> FALSE, late |-> 0, errc |-> FALSE]

\* chapter_meta entry written by api_analyze
PendingChapter == [job_id |-> 0, status |-> "pending", word_count |-> 0]

\* user ids: the premium user who analyses the book and converts, another user,
\* and the caller without a token (get_current_user() returns None)
BookOwner == "owner"
OtherUser == "other"
Anonymous == "anonymous"

\* word_count of a chapter when the word limit plays no part
SmallChapter == 1000

\* an event of the progress stream: kind is "none" before the first one, "data"
\* for a snapshot, "notfound" or "unauthorized" for the two error events
NoEvent == [kind |-> "none", status |-> "", progress |-> 0, message |-> ""]

\* api_download: the job asked for and the answer
NoDownload == [job |-> 0, result |-> "none"]

\* api_progress.generate: its position, the job it polls, the fields read in the
\* current poll, the job as it was at the lookup of the current poll, the number
\* of events emitted and the last two of them
NoStream ==
    [pc |-> "closed", job |-> 0, status |-> "", progress |-> 0,
     copy |-> NoEvent, n |-> 0, last |-> NoEvent, prev |-> NoEvent]

\* config.ALLOWED_EXTENSIONS
ALLOWED_EXTENSIONS == {"pdf", "epub", "docx"}

\* a caller as the handlers see it: get_current_user() and is_premium_user();
\* the caller without a valid token has no user data
NoUser == [id |-> Anonymous, premium |-> FALSE]

\* a submission and its answer: the HTTP status, whether the upload file that the
\* request saved is on disk when it returns, and the chapter states it returned
NoSubmission ==
    [op |-> "none", user |-> NoUser, ext |-> "", pages |-> 0, counted |-> FALSE,
     chapter |-> 0, result |-> "none", upload |-> FALSE, seen |-> <<>>]

\* no analyzer function has been applied
NoCall == [fn |-> "none"]

(* ------------------------------------------------------------------ *)
(* The output file as a sequence of blocks: s > 0 is an audio chunk of *)
(* segment s, 0 is one SILENCE block                                   *)
(* ------------------------------------------------------------------ *)
RECURSIVE CountSilence(_)
CountSilence(d) ==
    IF d = <<>> THEN 0
    ELSE (IF Head(d) = 0 THEN 1 ELSE 0) + CountSilence(Tail(d))

\* idx + 1 of the enumerate loop: the segment being streamed
CurSegment(d) == CountSilence(d) + 1

\* audio chunks written so far (total_bytes, in chunks)
AudioChunks(d) == Len(d) - CountSilence(d)

\* audio chunks of the segment being streamed
RECURSIVE ChunksInSegment(_)
ChunksInSegment(d) ==
    IF d = <<>> \/ d[Len(d)] = 0 THEN 0
    ELSE 1 + ChunksInSegment(SubSeq(d, 1, Len(d) - 1))

\* a percentage computed from the bytes still to come instead of the bytes written
StreamProgressRemaining(d) ==
    LET est == lim.segs * lim.chunks
        tot == IF AudioChunks(d) < est THEN AudioChunks(d) ELSE est
    IN 200 + (750 * (est - tot)) \div est

\* pct = 20 + min(total_bytes / estimated_size, 1.0) * 75, in tenths of a percent;
\* the estimate is the size of the largest text of the scenario
StreamProgress(d) ==
    LET est == lim.segs * lim.chunks
        tot == IF AudioChunks(d) < est THEN AudioChunks(d) ELSE est
    IN 200 + (750 * tot) \div est

(* ------------------------------------------------------------------ *)
(* Small updates                                                       *)
(* ------------------------------------------------------------------ *)
SetPc(j, p) == thr' = [thr EXCEPT ![j].pc = p]

\* is_job_cancelled(job_id)
CancelCheckSkipped(j) == FALSE
is_job_cancelled(j) == jobs[j].status = "cancelled"

\* the end of the thread function: a throttled worker still has its finally
ExitWithoutRelease(j) == "done"
ExitPc(j) == IF thr[j].kind = "throttled" /\ thr[j].holds THEN "release" ELSE "done"

\* the thread moves to pc p; its locals (and its history) end with it
Goto(j, p) ==
    /\ thr' = [thr EXCEPT ![j].pc = p,
                          ![j].nseg = IF p = "done" THEN 0 ELSE @,
                          ![j].holds = IF p = "done" THEN FALSE ELSE @]
    /\ hist' = [hist EXCEPT ![j] = IF p = "done" THEN NewHist ELSE @]

(* ------------------------------------------------------------------ *)
(* Initial state: empty registries                                     *)
(* ------------------------------------------------------------------ *)
InitState(l, a) ==
    /\ lim = l
    /\ an = a
    /\ req = NoSubmission
    /\ jobs = <<>>
    /\ thr = <<>>
    /\ files = <<>>
    /\ uploads = <<>>
    /\ book = [state |-> "none", chapters |-> <<>>]
    /\ sems = <<>>
    /\ cancelReq = {}
    /\ cancelBook = [idx |-> 0, phase |-> "job", n |-> 0]
    /\ convCh = {}
    /\ convAll = [idx |-> 0, sem |-> 0]
    /\ hist = <<>>
    /\ rd = [stream |-> NoStream, dl |-> NoDownload]

\* the state after import of app.py, in a scenario with limits l
InitWith(l) == InitState(l, NoCall)

\* the limits of a scenario in which the owner of the book and of the jobs is
\* the only client, no progress stream is opened and nothing is old
OwnerOnly(l) ==
    [jobs |-> l.jobs, chapters |-> l.chapters, segs |-> l.segs, chunks |-> l.chunks,
     alls |-> l.alls, cbooks |-> l.cbooks, cchs |-> l.cchs, inflight |-> l.inflight,
     client |-> BookOwner, creator |-> BookOwner, words |-> {SmallChapter},
     polls |-> 0]

Init ==
    InitWith(OwnerOnly(
             [jobs |-> MaxJobs, chapters |-> NumChapters, segs |-> MaxSegments,
              chunks |-> MaxChunks, alls |-> MaxConvertAll,
              cbooks |-> MaxCancelBook, cchs |-> MaxJobs, inflight |-> MaxInflight]))

\* a new job with its thread, output path and upload
AddJob(msg, t, up) ==
    /\ jobs' = Append(jobs, NewJob(msg))
    /\ thr' = Append(thr, t)
    /\ files' = Append(files, NoFile)
    /\ uploads' = Append(uploads, up)
    /\ hist' = Append(hist, NewHist)

(* ------------------------------------------------------------------ *)
(* update_progress: the cancellation check, then the write             *)
(* ------------------------------------------------------------------ *)
\* update_progress that sees the cancellation and goes on without raising
update_progress_no_raise(j, from, next) ==
    /\ thr[j].pc = from
    /\ SetPc(j, next)
    /\ hist' = [hist EXCEPT ![j].obs = is_job_cancelled(j)]
    /\ UNCHANGED <<lim, req, an, rd, jobs, files, uploads, book, sems, cancelReq, cancelBook,
                   convCh, convAll>>

\* "if is_job_cancelled(job_id): raise InterruptedError", at pc from
update_progress_check(j, from, next) ==
    /\ thr[j].pc = from
    /\ IF is_job_cancelled(j)
       THEN /\ SetPc(j, "intr")
            /\ hist' = [hist EXCEPT ![j].obs = TRUE]
       ELSE /\ SetPc(j, next)
            /\ UNCHANGED hist
    /\ UNCHANGED <<lim, req, an, rd, jobs, files, uploads, book, sems, cancelReq, cancelBook,
                   convCh, convAll>>

\* "jobs[job_id]['progress'] = round(percent, 1); jobs[job_id]['message'] = message"
update_progress_write(j, pct, msg) ==
    jobs' = [jobs EXCEPT ![j].progress = pct, ![j].message = msg]

(* ------------------------------------------------------------------ *)
(* run_conversion up to convert_to_speech                              *)
(* ------------------------------------------------------------------ *)
\* update_progress(5, "Extracting text..."): the check
P5Check(j) == update_progress_check(j, "p5chk", "p5set")

\* update_progress(5, ...): the write; then extract_text, which returns text,
\* raises, or returns blank text (ValueError)
P5Set(j) ==
    /\ thr[j].pc = "p5set"
    /\ update_progress_write(j, 50, "Extracting text...")
    /\ \E ok \in BOOLEAN : SetPc(j, IF ok THEN "p20chk" ELSE "err")
    /\ UNCHANGED <<lim, req, an, rd, files, uploads, book, sems, cancelReq, cancelBook,
                   convCh, convAll, hist>>

\* run_chapter_conversion: "if not chapter_text.strip(): raise ValueError"
ChapterTextEmpty(j) ==
    /\ thr[j].pc = "p20chk"
    /\ thr[j].kind # "file"
    /\ SetPc(j, "err")
    /\ UNCHANGED <<lim, req, an, rd, jobs, files, uploads, book, sems, cancelReq, cancelBook,
                   convCh, convAll, hist>>

\* update_progress(20, ...): the check
P20Check(j) == update_progress_check(j, "p20chk", "p20set")

\* update_progress(20, ...): the write; then convert_to_speech splits the text
\* into nseg segments and opens (truncates) the output file
P20Set(j) ==
    /\ thr[j].pc = "p20set"
    /\ update_progress_write(j, 200,
            IF thr[j].kind = "file" THEN "Text extracted. Starting conversion..."
            ELSE "Converting to speech...")
    /\ \E n \in 1..lim.segs : thr' = [thr EXCEPT ![j].pc = "stream", ![j].nseg = n]
    /\ files' = [files EXCEPT ![j] = [exists |-> TRUE, data |-> <<>>]]
    /\ UNCHANGED <<lim, req, an, rd, uploads, book, sems, cancelReq, cancelBook, convCh,
                   convAll, hist>>

(* ------------------------------------------------------------------ *)
(* convert_to_speech._convert                                          *)
(* ------------------------------------------------------------------ *)
\* "f.write(chunk['data'])" of an audio chunk of the current segment
StreamChunk(j) ==
    /\ thr[j].pc = "stream"
    /\ CurSegment(files[j].data) <= thr[j].nseg
    /\ ChunksInSegment(files[j].data) < lim.chunks
    /\ files' = [files EXCEPT ![j].data = Append(@, CurSegment(files[j].data))]
    /\ hist' = [hist EXCEPT ![j].late =
                    IF jobs[j].status = "cancelled" THEN @ + 1 ELSE @]
    /\ SetPc(j, "cbchk")
    /\ UNCHANGED <<lim, req, an, rd, jobs, uploads, book, sems, cancelReq, cancelBook,
                   convCh, convAll>>

\* the stream of a segment ends: "if idx < len(segments) - 1: f.write(SILENCE)"
\* (a stream that ends without any audio chunk raises: StreamFail)
StreamSilence(j) ==
    /\ thr[j].pc = "stream"
    /\ CurSegment(files[j].data) < thr[j].nseg
    /\ ChunksInSegment(files[j].data) > 0
    /\ files' = [files EXCEPT ![j].data = Append(@, 0)]
    /\ UNCHANGED <<lim, req, an, rd, jobs, thr, uploads, book, sems, cancelReq, cancelBook,
                   convCh, convAll, hist>>

\* the stream of the last segment ends: the file is closed
StreamEnd(j) ==
    /\ thr[j].pc = "stream"
    /\ CurSegment(files[j].data) = thr[j].nseg
    /\ ChunksInSegment(files[j].data) > 0
    /\ SetPc(j, "p95chk")
    /\ UNCHANGED <<lim, req, an, rd, jobs, files, uploads, book, sems, cancelReq, cancelBook,
                   convCh, convAll, hist>>

\* edge_tts raises while streaming (any exception other than InterruptedError)
StreamFail(j) ==
    /\ thr[j].pc = "stream"
    /\ SetPc(j, "err")
    /\ UNCHANGED <<lim, req, an, rd, jobs, files, uploads, book, sems, cancelReq, cancelBook,
                   convCh, convAll, hist>>

\* progress_callback(pct, "Converting to speech...") after a chunk: the check
CallbackCheck(j) == update_progress_check(j, "cbchk", "cbset")

\* progress_callback after a chunk: the write
CallbackSet(j) ==
    /\ thr[j].pc = "cbset"
    /\ update_progress_write(j, StreamProgress(files[j].data), "Converting to speech...")
    /\ SetPc(j, "stream")
    /\ UNCHANGED <<lim, req, an, rd, files, uploads, book, sems, cancelReq, cancelBook,
                   convCh, convAll, hist>>

\* progress_callback(95, "Finalizing audio..."): the check
P95Check(j) == update_progress_check(j, "p95chk", "p95set")

\* progress_callback(95, "Finalizing audio..."): the write
P95Set(j) ==
    /\ thr[j].pc = "p95set"
    /\ update_progress_write(j, 950, "Finalizing audio...")
    /\ SetPc(j, "finchk")
    /\ UNCHANGED <<lim, req, an, rd, files, uploads, book, sems, cancelReq, cancelBook,
                   convCh, convAll, hist>>

(* ------------------------------------------------------------------ *)
(* The end of run_conversion / run_chapter_conversion                  *)
(* ------------------------------------------------------------------ *)
\* "if is_job_cancelled(job_id): raise InterruptedError" before marking complete
FinalCheck(j) == update_progress_check(j, "finchk", "complete")

\* the job fields written on success
CompletedJob(job) ==
    [job EXCEPT !.progress = 1000, !.message = "Done!", !.status = "completed",
                !.output_file = TRUE]

\* "with jobs_lock: ... jobs[job_id]['status'] = 'completed' ..."
Complete(j) ==
    /\ thr[j].pc = "complete"
    /\ jobs' = [jobs EXCEPT ![j] = CompletedJob(@)]
    /\ SetPc(j, IF thr[j].kind = "file" THEN "final" ELSE "ch_done")
    /\ UNCHANGED <<lim, req, an, rd, files, uploads, book, sems, cancelReq, cancelBook,
                   convCh, convAll, hist>>

\* "if book_id in books: books[book_id]['chapters'][chapter_index]['status'] = st"
SetChapterStatus(j, st) ==
    IF book.state = "present"
    THEN book' = [book EXCEPT !.chapters[thr[j].ch].status = st]
    ELSE UNCHANGED book

\* run_chapter_conversion: the chapter is marked completed
ChapterDone(j) ==
    /\ thr[j].pc = "ch_done"
    /\ SetChapterStatus(j, "completed")
    /\ Goto(j, ExitPc(j))
    /\ UNCHANGED <<lim, req, an, rd, jobs, files, uploads, sems, cancelReq, cancelBook,
                   convCh, convAll>>

\* the job fields written by "except InterruptedError"
CancelledJob(job) ==
    [job EXCEPT !.status = "cancelled", !.message = "Conversion cancelled.",
                !.progress = 0]

\* "except InterruptedError: with jobs_lock: ..."
Interrupted(j) ==
    /\ thr[j].pc = "intr"
    /\ jobs' = [jobs EXCEPT ![j] = CancelledJob(@)]
    /\ SetPc(j, IF thr[j].kind = "file" THEN "rm" ELSE "ch_intr")
    /\ UNCHANGED <<lim, req, an, rd, files, uploads, book, sems, cancelReq, cancelBook,
                   convCh, convAll, hist>>

\* run_chapter_conversion, except InterruptedError: the chapter is marked cancelled
ChapterInterrupted(j) ==
    /\ thr[j].pc = "ch_intr"
    /\ SetChapterStatus(j, "cancelled")
    /\ SetPc(j, "rm")
    /\ UNCHANGED <<lim, req, an, rd, jobs, files, uploads, sems, cancelReq, cancelBook,
                   convCh, convAll, hist>>

\* the output file after "os.remove(partial)" (OSError is swallowed)
RemovePartialKeeps(f) == f
RemovedFile(f) == NoFile

\* except InterruptedError: "os.remove(partial)"
RemovePartial(j) ==
    /\ thr[j].pc = "rm"
    /\ files' = [files EXCEPT ![j] = RemovedFile(@)]
    /\ Goto(j, IF thr[j].kind = "file" THEN "final" ELSE ExitPc(j))
    /\ UNCHANGED <<lim, req, an, rd, jobs, uploads, book, sems, cancelReq, cancelBook,
                   convCh, convAll>>

\* the job fields written by "except Exception": nothing when already cancelled
ErrorJobUnguarded(job) ==
    [job EXCEPT !.status = "error", !.message = "error", !.progress = 0]
ErrorJob(job) ==
    IF job.status # "cancelled"
    THEN [job EXCEPT !.status = "error", !.message = "error", !.progress = 0]
    ELSE job

\* "except Exception as e: with jobs_lock: ..."
Error(j) ==
    /\ thr[j].pc = "err"
    /\ jobs' = [jobs EXCEPT ![j] = ErrorJob(@)]
    /\ SetPc(j, IF thr[j].kind = "file" THEN "final" ELSE "ch_err")
    /\ hist' = [hist EXCEPT ![j].errc = (jobs[j].status = "cancelled")]
    /\ UNCHANGED <<lim, req, an, rd, files, uploads, book, sems, cancelReq, cancelBook,
                   convCh, convAll>>

\* run_chapter_conversion, except Exception: the chapter is marked error
ChapterError(j) ==
    /\ thr[j].pc = "ch_err"
    /\ SetChapterStatus(j, "error")
    /\ Goto(j, ExitPc(j))
    /\ UNCHANGED <<lim, req, an, rd, jobs, files, uploads, sems, cancelReq, cancelBook,
                   convCh, convAll>>

\* run_conversion, finally: "os.remove(filepath)"
Finally(j) ==
    /\ thr[j].pc = "final"
    /\ uploads' = [uploads EXCEPT ![j] = FALSE]
    /\ Goto(j, "done")
    /\ UNCHANGED <<lim, req, an, rd, jobs, files, book, sems, cancelReq, cancelBook,
                   convCh, convAll>>

(* ------------------------------------------------------------------ *)
(* run_chapter_conversion_throttled                                    *)
(* ------------------------------------------------------------------ *)
\* an acquire that returns True whether or not a permit is left
SemAcquireAlways(j) ==
    /\ thr[j].pc = "wait"
    /\ sems' = [sems EXCEPT ![thr[j].sem] = @ - 1]
    /\ thr' = [thr EXCEPT ![j].pc = "recheck", ![j].holds = TRUE]
    /\ UNCHANGED <<lim, req, an, rd, jobs, files, uploads, book, cancelReq, cancelBook,
                   convCh, convAll, hist>>

\* "semaphore.acquire(timeout=0.5)" returns True
SemAcquire(j) ==
    /\ thr[j].pc = "wait"
    /\ sems[thr[j].sem] > 0
    /\ sems' = [sems EXCEPT ![thr[j].sem] = @ - 1]
    /\ thr' = [thr EXCEPT ![j].pc = "recheck", ![j].holds = TRUE]
    /\ UNCHANGED <<lim, req, an, rd, jobs, files, uploads, book, cancelReq, cancelBook,
                   convCh, convAll, hist>>

\* "semaphore.acquire(timeout=0.5)" times out: no permit for 500 ms
SemTimeout(j) ==
    /\ thr[j].pc = "wait"
    /\ sems[thr[j].sem] = 0
    /\ SetPc(j, "pollchk")
    /\ UNCHANGED <<lim, req, an, rd, jobs, files, uploads, book, sems, cancelReq, cancelBook,
                   convCh, convAll, hist>>

\* "if is_job_cancelled(job_id)" in the polling loop
PollCheck(j) ==
    /\ thr[j].pc = "pollchk"
    /\ SetPc(j, IF is_job_cancelled(j) THEN "t_msg" ELSE "wait")
    /\ UNCHANGED <<lim, req, an, rd, jobs, files, uploads, book, sems, cancelReq, cancelBook,
                   convCh, convAll, hist>>

\* "if is_job_cancelled(job_id)" right after acquiring the semaphore
Recheck(j) ==
    /\ thr[j].pc = "recheck"
    /\ SetPc(j, IF is_job_cancelled(j) THEN "t_msg" ELSE "p20chk")
    /\ UNCHANGED <<lim, req, an, rd, jobs, files, uploads, book, sems, cancelReq, cancelBook,
                   convCh, convAll, hist>>

\* "jobs[job_id]['message'] = 'Conversion cancelled.'; jobs[job_id]['progress'] = 0"
ThrottledCancelJob(j) ==
    /\ thr[j].pc = "t_msg"
    /\ update_progress_write(j, 0, "Conversion cancelled.")
    /\ SetPc(j, "t_ch")
    /\ UNCHANGED <<lim, req, an, rd, files, uploads, book, sems, cancelReq, cancelBook,
                   convCh, convAll, hist>>

\* "if book_id in books and chapter_index < len(...): ...['status'] = 'cancelled'"
ThrottledCancelChapter(j) ==
    /\ thr[j].pc = "t_ch"
    /\ SetChapterStatus(j, "cancelled")
    /\ Goto(j, ExitPc(j))
    /\ UNCHANGED <<lim, req, an, rd, jobs, files, uploads, sems, cancelReq, cancelBook,
                   convCh, convAll>>

\* "finally: semaphore.release()"
Release(j) ==
    /\ thr[j].pc = "release"
    /\ sems' = [sems EXCEPT ![thr[j].sem] = @ + 1]
    /\ Goto(j, "done")
    /\ UNCHANGED <<lim, req, an, rd, jobs, files, uploads, book, cancelReq, cancelBook,
                   convCh, convAll>>

(* ------------------------------------------------------------------ *)
(* Requests                                                            *)
(* ------------------------------------------------------------------ *)
\* api_analyze stores the book record with its pending chapters, each with the
\* word_count of its text
ApiAnalyze ==
    /\ book.state = "none"
    /\ \E wc \in [Chapters -> lim.words] :
          book' = [state |-> "present",
                   chapters |-> [c \in Chapters |->
                                    [PendingChapter EXCEPT !.word_count = wc[c]]]]
    /\ UNCHANGED <<lim, req, an, rd, jobs, thr, files, uploads, sems, cancelReq, cancelBook,
                   convCh, convAll, hist>>

\* cleanup_old_files, run by api_convert: the book record is older than
\* CLEANUP_AGE and is deleted (with its cache directory)
CleanupOldFiles ==
    /\ book.state = "present"
    /\ book' = [book EXCEPT !.state = "evicted"]
    /\ UNCHANGED <<lim, req, an, rd, jobs, thr, files, uploads, sems, cancelReq, cancelBook,
                   convCh, convAll, hist>>

\* cleanup_old_files, run by api_convert: the output file of job j, last written
\* more than CLEANUP_AGE ago (its worker has ended), is removed; the job record,
\* which is older than its file, is left in the registry
CleanupOutput(j) ==
    /\ thr[j].pc = "done"
    /\ files[j].exists
    /\ files' = [files EXCEPT ![j] = NoFile]
    /\ UNCHANGED <<lim, req, an, rd, jobs, thr, uploads, book, sems, cancelReq, cancelBook,
                   convCh, convAll, hist>>

\* api_convert: the upload is saved, the job is created, run_conversion is started
ApiConvert ==
    /\ CanCreate
    /\ AddJob("Starting...", NewThread("file", 0, 0, "p5chk"), TRUE)
    /\ UNCHANGED <<lim, req, an, rd, book, sems, cancelReq, cancelBook, convCh, convAll>>

\* "existing_job and existing_job['status'] in ('processing', 'completed')"
HasLiveJob(c) ==
    /\ book.chapters[c].job_id # 0
    /\ jobs[book.chapters[c].job_id].status \in {"processing", "completed"}

\* api_convert_chapter up to the chapter text read: the book is found, the chapter
\* has no processing or completed job, the cached text is read
ConvertChapterReady(c) ==
    /\ CanStart
    /\ book.state = "present"
    /\ c \notin convCh
    /\ CanCreate
    /\ ChapterRequests < lim.cchs
    /\ ~HasLiveJob(c)

ConvertChapterCheck(c) ==
    /\ ConvertChapterReady(c)
    /\ convCh' = convCh \cup {c}
    /\ UNCHANGED <<lim, req, an, rd, jobs, thr, files, uploads, book, sems, cancelReq,
                   cancelBook, convAll, hist>>

\* api_convert_chapter: the job is created; books[book_id] is then written and the
\* thread started, unless the book was evicted meanwhile (KeyError: no thread)
ConvertChapterCreate(c) ==
    /\ c \in convCh
    /\ convCh' = convCh \ {c}
    /\ IF book.state = "present"
       THEN /\ AddJob("Starting chapter conversion...",
                      NewThread("chapter", c, 0, "p20chk"), FALSE)
            /\ book' = [book EXCEPT !.chapters[c].job_id = Len(jobs) + 1,
                                    !.chapters[c].status = "processing"]
       ELSE /\ AddJob("Starting chapter conversion...",
                      NewThread("none", c, 0, "none"), FALSE)
            /\ UNCHANGED book
    /\ UNCHANGED <<lim, req, an, rd, sems, cancelReq, cancelBook, convAll>>

\* sum(ch["word_count"] for ch in book["chapters"]), over the first n chapters
RECURSIVE SumWords(_)
SumWords(n) ==
    IF n = 0 THEN 0 ELSE book.chapters[n].word_count + SumWords(n - 1)

total_words == SumWords(lim.chapters)

\* "if total_words > MAX_TOTAL_WORDS": the request is refused (400)
word_limit_off(total) == FALSE
word_limit_exceeded(total) == total > MAX_TOTAL_WORDS

\* api_convert_all_chapters up to the loop: the book is found, the word limit is
\* not exceeded and a new Semaphore(MAX_CONCURRENT_CHAPTERS) is created for this
\* request; a refused request changes nothing
ConvertAllReady ==
    /\ CanStart
    /\ book.state = "present"
    /\ ~word_limit_exceeded(total_words)
    /\ convAll.idx = 0
    /\ Len(sems) < lim.alls

ConvertAllBegin ==
    /\ ConvertAllReady
    /\ sems' = Append(sems, MAX_CONCURRENT_CHAPTERS)
    /\ convAll' = [idx |-> 1, sem |-> Len(sems) + 1]
    /\ UNCHANGED <<lim, req, an, rd, jobs, thr, files, uploads, book, cancelReq, cancelBook,
                   convCh, hist>>

NextIdx(i) == IF i < lim.chapters THEN i + 1 ELSE 0

\* one iteration of "for chapter in book['chapters']" that skips the chapter:
\* it has a processing or completed job, or its cached text is gone
ConvertAllSkip ==
    /\ convAll.idx # 0
    /\ HasLiveJob(convAll.idx) \/ book.state # "present"
    /\ convAll' = [convAll EXCEPT !.idx = NextIdx(@)]
    /\ UNCHANGED <<lim, req, an, rd, jobs, thr, files, uploads, book, sems, cancelReq,
                   cancelBook, convCh, hist>>

\* one iteration that creates the job, links the chapter to it and starts
\* run_chapter_conversion_throttled with the request's semaphore
ConvertAllSpawn ==
    /\ convAll.idx # 0
    /\ ~HasLiveJob(convAll.idx)
    /\ book.state = "present"
    /\ CanCreate
    /\ AddJob("Queued...", NewThread("throttled", convAll.idx, convAll.sem, "wait"),
              FALSE)
    /\ book' = [book EXCEPT !.chapters[convAll.idx].job_id = Len(jobs) + 1,
                            !.chapters[convAll.idx].status = "processing"]
    /\ convAll' = [convAll EXCEPT !.idx = NextIdx(@)]
    /\ UNCHANGED <<lim, req, an, rd, sems, cancelReq, cancelBook, convCh>>

\* api_book_status: the status reported for chapter c is the status of its job
\* when the chapter has one, the status of the chapter record otherwise
chapter_status(c) ==
    IF book.chapters[c].job_id # 0
    THEN jobs[book.chapters[c].job_id].status
    ELSE book.chapters[c].status

\* jobs[job_id]["user_id"]: the caller of api_convert (None without a token), the
\* owner of the book for a chapter job
job_user_id(j) == IF thr[j].kind = "file" THEN lim.creator ELSE BookOwner

\* "if job_user_id and job_user_id != current_user_id": the request of user u on
\* job j is refused (api_cancel, api_progress, api_download)
job_access_open(j, u) == FALSE
job_access_refused(j, u) ==
    job_user_id(j) # Anonymous /\ job_user_id(j) # u

\* api_cancel_book: "if book_user_id and current_user_id and
\* book_user_id != current_user_id": the request of user u is refused
cancel_book_refused(u) ==
    BookOwner # Anonymous /\ u # Anonymous /\ BookOwner # u

\* api_cancel up to "if job['status'] not in ('processing',)": the request of the
\* client goes on only when it is not refused (403) and the job is processing
\* (otherwise it answers 400); a refused request changes nothing
CancelCheck(j) ==
    /\ CanStart
    /\ j \notin cancelReq
    /\ ~job_access_refused(j, lim.client)
    /\ jobs[j].status = "processing"
    /\ cancelReq' = cancelReq \cup {j}
    /\ UNCHANGED <<lim, req, an, rd, jobs, thr, files, uploads, book, sems, cancelBook,
                   convCh, convAll, hist>>

\* the job fields written by api_cancel
CancelRequested(job) ==
    [job EXCEPT !.status = "cancelled", !.message = "Cancelling..."]

\* api_cancel: "with jobs_lock: jobs[job_id]['status'] = 'cancelled' ..."
CancelWrite(j) ==
    /\ j \in cancelReq
    /\ cancelReq' = cancelReq \ {j}
    /\ jobs' = [jobs EXCEPT ![j] = CancelRequested(@)]
    /\ UNCHANGED <<lim, req, an, rd, thr, files, uploads, book, sems, cancelBook, convCh,
                   convAll, hist>>

\* api_cancel_book up to the loop: the book is found and the client is not refused
CancelBookBegin ==
    /\ CanStart
    /\ book.state = "present"
    /\ ~cancel_book_refused(lim.client)
    /\ cancelBook.idx = 0
    /\ cancelBook.n < lim.cbooks
    /\ cancelBook' = [idx |-> 1, phase |-> "job", n |-> cancelBook.n + 1]
    /\ UNCHANGED <<lim, req, an, rd, jobs, thr, files, uploads, book, sems, cancelReq,
                   convCh, convAll, hist>>

\* one iteration of "for ch in book['chapters']", first half: a chapter without a
\* job is passed over; otherwise, under jobs_lock, a processing job is cancelled
CancelBookJob ==
    /\ cancelBook.idx # 0
    /\ cancelBook.phase = "job"
    /\ LET jid == book.chapters[cancelBook.idx].job_id IN
       IF jid = 0
       THEN /\ cancelBook' = [cancelBook EXCEPT !.idx = NextIdx(@)]
            /\ UNCHANGED jobs
       ELSE /\ cancelBook' = [cancelBook EXCEPT !.phase = "ch"]
            /\ jobs' = [jobs EXCEPT ![jid] =
                            IF @.status = "processing" THEN CancelRequested(@) ELSE @]
    /\ UNCHANGED <<lim, req, an, rd, thr, files, uploads, book, sems, cancelReq, convCh,
                   convAll, hist>>

\* second half: "with books_lock: ch['status'] = 'cancelled'"
CancelBookChapter ==
    /\ cancelBook.idx # 0
    /\ cancelBook.phase = "ch"
    /\ book' = [book EXCEPT !.chapters[cancelBook.idx].status = "cancelled"]
    /\ cancelBook' = [cancelBook EXCEPT !.idx = NextIdx(@), !.phase = "job"]
    /\ UNCHANGED <<lim, req, an, rd, jobs, thr, files, uploads, sems, cancelReq, convCh,
                   convAll, hist>>

(* ------------------------------------------------------------------ *)
(* api_progress and api_download, called by the client                 *)
(* ------------------------------------------------------------------ *)
\* the fields of job j that the stream emits
Snapshot(j) ==
    [kind |-> "data", status |-> jobs[j].status, progress |-> jobs[j].progress,
     message |-> jobs[j].message]

\* "yield": event e is emitted
Emit(e) ==
    [rd.stream EXCEPT !.n = @ + 1, !.prev = rd.stream.last, !.last = e]

\* api_progress: the response is started for job id j (0: an id that no job has)
StreamOpen(j) ==
    /\ rd.stream.pc = "closed"
    /\ lim.polls > 0
    /\ rd' = [rd EXCEPT !.stream.pc = "poll", !.stream.job = j]
    /\ UNCHANGED <<lim, req, an, jobs, thr, files, uploads, book, sems, cancelReq,
                   cancelBook, convCh, convAll, hist>>

\* generate: "with jobs_lock: job = jobs.get(job_id)", then the two error events:
\* 'Job not found.' and, for a caller the job refuses, 'Unauthorized access'
StreamLookup ==
    /\ rd.stream.pc = "poll"
    /\ LET j == rd.stream.job IN
       rd' = [rd EXCEPT !.stream =
                IF j = 0
                THEN [Emit([NoEvent EXCEPT !.kind = "notfound"])
                          EXCEPT !.pc = "ended"]
                ELSE IF job_access_refused(j, lim.client)
                THEN [Emit([NoEvent EXCEPT !.kind = "unauthorized"])
                          EXCEPT !.pc = "ended"]
                ELSE [@ EXCEPT !.pc = "rstat", !.copy = Snapshot(j)]]
    /\ UNCHANGED <<lim, req, an, jobs, thr, files, uploads, book, sems, cancelReq,
                   cancelBook, convCh, convAll, hist>>

\* generate: '"status": job["status"]', read from the job record without the lock
StreamReadStatus ==
    /\ rd.stream.pc = "rstat"
    /\ rd' = [rd EXCEPT !.stream.pc = "rprog",
                        !.stream.status = jobs[rd.stream.job].status]
    /\ UNCHANGED <<lim, req, an, jobs, thr, files, uploads, book, sems, cancelReq,
                   cancelBook, convCh, convAll, hist>>

\* generate: '"progress": job["progress"]'
StreamReadProgress ==
    /\ rd.stream.pc = "rprog"
    /\ rd' = [rd EXCEPT !.stream.pc = "rmsg",
                        !.stream.progress = jobs[rd.stream.job].progress]
    /\ UNCHANGED <<lim, req, an, jobs, thr, files, uploads, book, sems, cancelReq,
                   cancelBook, convCh, convAll, hist>>

\* generate: '"message": job["message"]' and the yield of the snapshot
StreamEmit ==
    /\ rd.stream.pc = "rmsg"
    /\ rd' = [rd EXCEPT !.stream =
                [Emit([kind |-> "data", status |-> rd.stream.status,
                       progress |-> rd.stream.progress,
                       message |-> jobs[rd.stream.job].message])
                     EXCEPT !.pc = "chk"]]
    /\ UNCHANGED <<lim, req, an, jobs, thr, files, uploads, book, sems, cancelReq,
                   cancelBook, convCh, convAll, hist>>

\* generate: 'if job["status"] in ("completed", "error", "cancelled"): return',
\* a second read of the status; otherwise time.sleep(0.5)
StreamTerminalCheck ==
    /\ rd.stream.pc = "chk"
    /\ rd' = [rd EXCEPT !.stream.pc =
                IF jobs[rd.stream.job].status \in Terminal THEN "ended" ELSE "sleep"]
    /\ UNCHANGED <<lim, req, an, jobs, thr, files, uploads, book, sems, cancelReq,
                   cancelBook, convCh, convAll, hist>>

\* generate: the sleep ends and the next poll begins
StreamSleep ==
    /\ rd.stream.pc = "sleep"
    /\ rd.stream.n < lim.polls
    /\ rd' = [rd EXCEPT !.stream.pc = "poll"]
    /\ UNCHANGED <<lim, req, an, jobs, thr, files, uploads, book, sems, cancelReq,
                   cancelBook, convCh, convAll, hist>>

\* api_download of job j by the client: 403 for a refused caller, 400 unless the
\* job is completed, 404 when the output file is gone, the file otherwise
ApiDownload(j) ==
    /\ rd.dl.result = "none"
    /\ lim.polls > 0
    /\ rd' = [rd EXCEPT !.dl =
                [job |-> j,
                 result |-> IF job_access_refused(j, lim.client) THEN "refused"
                            ELSE IF jobs[j].status # "completed" THEN "notcomplete"
                            ELSE IF ~files[j].exists THEN "missing"
                            ELSE "served"]]
    /\ UNCHANGED <<lim, req, an, jobs, thr, files, uploads, book, sems, cancelReq,
                   cancelBook, convCh, convAll, hist>>

(* ------------------------------------------------------------------ *)
(* Submissions with their refusals                                     *)
(* ------------------------------------------------------------------ *)
\* the callers: no valid token, or a user who is premium or not
Callers ==
    {NoUser} \cup {[id |-> u, premium |-> p] : u \in {BookOwner, OtherUser},
                                               p \in BOOLEAN}

\* the extension of the uploaded file name ("" when the name has no dot)
Extensions == {"pdf", "epub", "docx", "txt", ""}

\* allowed_file(filename), on the extension of the name
allowed_file_any(ext) == TRUE
allowed_file(ext) == ext # "" /\ ext \in ALLOWED_EXTENSIONS

\* the submission that has just been answered (pages is 0 when no page count
\* was obtained)
Answered(op, u, ext, pages, c, result, up, seen) ==
    [op |-> op, user |-> u, ext |-> ext, pages |-> pages, counted |-> pages > 0,
     chapter |-> c, result |-> result, upload |-> up, seen |-> seen]

\* api_convert before the job: the extension check, then, for a caller who is
\* not premium, the page count of the saved upload against FREE_PAGE_LIMIT
\* (counted is FALSE when get_page_count raises: the request then goes on)
convert_refusal(u, ext, pages, counted) ==
    IF ~allowed_file(ext) THEN "unsupported"
    ELSE IF ~u.premium /\ counted /\ pages > FREE_PAGE_LIMIT THEN "page_cap"
    ELSE "ok"

\* api_convert by the user of the scenario's single-file jobs: refused, or the
\* upload is saved, the job created and run_conversion started; the upload of a
\* request refused for its page count is removed again
ApiConvertSubmit(u, ext, pages, counted) ==
    /\ u.id = lim.creator
    /\ LET r == convert_refusal(u, ext, pages, counted) IN
       IF r = "ok"
       THEN /\ CanCreate
            /\ AddJob("Starting...", NewThread("file", 0, 0, "p5chk"), TRUE)
            /\ req' = Answered("convert", u, ext, IF counted THEN pages ELSE 0, 0,
                               r, TRUE, <<>>)
       ELSE /\ req' = Answered("convert", u, ext, IF counted THEN pages ELSE 0, 0,
                               r, FALSE, <<>>)
            /\ UNCHANGED <<jobs, thr, files, uploads, hist>>
    /\ UNCHANGED <<lim, an, rd, book, sems, cancelReq, cancelBook, convCh, convAll>>

\* @require_auth, then "if not is_premium_user(user_data)": the answer of the
\* premium-only handlers to a caller they turn away, "ok" for the others
premium_gate_open(u) == "ok"
premium_gate(u) ==
    IF u.id = Anonymous THEN "401"
    ELSE IF ~u.premium THEN "403_premium"
    ELSE "ok"

\* "if not book" and the ownership check of the book handlers
book_gate(u) ==
    IF premium_gate(u) # "ok" THEN premium_gate(u)
    ELSE IF book.state # "present" THEN "404"
    ELSE IF BookOwner # u.id THEN "403_owner"
    ELSE "ok"

\* api_analyze: the gates, the extension check, the upload, then the manual
\* segments or extract_chapters; outcome is what that part of the request does:
\* "ok", "bad_segments" (a 400 of the manual mode), "ValueError" or "Exception".
\* Every error after the upload removes the upload; the request that succeeds
\* stores the book and leaves the upload at books[book_id]["upload_path"]
AnalyzeSubmit(u, ext, manual, outcome) ==
    /\ manual \/ outcome # "bad_segments"
    /\ LET r == IF premium_gate(u) # "ok" THEN premium_gate(u)
                ELSE IF ext \notin {"pdf", "epub"} THEN "unsupported"
                ELSE IF manual /\ ext # "pdf" THEN "manual_needs_pdf"
                ELSE outcome
       IN
       IF r = "ok"
       THEN /\ book.state = "none"
            /\ u.id = BookOwner
            /\ \E wc \in [Chapters -> lim.words] :
                  book' = [state |-> "present",
                           chapters |-> [c \in Chapters |->
                                            [PendingChapter EXCEPT !.word_count = wc[c]]]]
            /\ req' = Answered("analyze", u, ext, 0, 0, r, TRUE, <<>>)
       ELSE /\ req' = Answered("analyze", u, ext, 0, 0, r, FALSE, <<>>)
            /\ UNCHANGED book
    /\ UNCHANGED <<lim, an, rd, jobs, thr, files, uploads, sems, cancelReq,
                   cancelBook, convCh, convAll, hist>>

\* api_convert_chapter up to "chapter = book['chapters'][chapter_index]"
\* (c is chapter_index + 1)
convert_chapter_refusal(u, c) ==
    IF book_gate(u) # "ok" THEN book_gate(u)
    ELSE IF c \notin Chapters THEN "400_index"
    ELSE "ok"

\* api_convert_chapter by caller u: refused, or it goes on past the check of the
\* chapter's current job
ConvertChapterSubmit(u, c) ==
    LET r == convert_chapter_refusal(u, c) IN
    /\ req' = Answered("convert_chapter", u, "", 0, c, r, FALSE, <<>>)
    /\ IF r = "ok"
       THEN /\ ConvertChapterReady(c)
            /\ convCh' = convCh \cup {c}
       ELSE UNCHANGED convCh
    /\ UNCHANGED <<lim, an, rd, jobs, thr, files, uploads, book, sems,
                   cancelReq, cancelBook, convAll, hist>>

\* api_convert_all_chapters by caller u: refused by the gates or by the word
\* limit, or it goes on to create its semaphore
ConvertAllSubmit(u) ==
    LET r == IF book_gate(u) # "ok" THEN book_gate(u)
             ELSE IF word_limit_exceeded(total_words) THEN "400_words"
             ELSE "ok"
    IN
    /\ req' = Answered("convert_all", u, "", 0, 0, r, FALSE, <<>>)
    /\ IF r = "ok"
       THEN /\ ConvertAllReady
            /\ sems' = Append(sems, MAX_CONCURRENT_CHAPTERS)
            /\ convAll' = [idx |-> 1, sem |-> Len(sems) + 1]
       ELSE UNCHANGED <<sems, convAll>>
    /\ UNCHANGED <<lim, an, rd, jobs, thr, files, uploads, book, cancelReq,
                   cancelBook, convCh, hist>>

\* api_book_status by caller u: the answer carries the status of every chapter
\* only when the caller passes the gates
BookStatus(u) ==
    /\ req' = Answered("book_status", u, "", 0, 0, book_gate(u), FALSE,
                       IF book_gate(u) = "ok"
                       THEN [c \in Chapters |-> chapter_status(c)] ELSE <<>>)
    /\ UNCHANGED <<lim, an, rd, jobs, thr, files, uploads, book, sems,
                   cancelReq, cancelBook, convCh, convAll, hist>>

(* ------------------------------------------------------------------ *)
(* Number parsing of the chapter splitter.  A string is a sequence of  *)
(* one-character strings                                               *)
(* ------------------------------------------------------------------ *)
\* the result of a parser: None, or an int
None == [ok |-> FALSE, val |-> 0]
Some(n) == [ok |-> TRUE, val |-> n]

UpperCase == <<"A", "B", "C", "D", "E", "F", "G", "H", "I", "J", "K", "L", "M",
               "N", "O", "P", "Q", "R", "S", "T", "U", "V", "W", "X", "Y", "Z">>
LowerCase == <<"a", "b", "c", "d", "e", "f", "g", "h", "i", "j", "k", "l", "m",
               "n", "o", "p", "q", "r", "s", "t", "u", "v", "w", "x", "y", "z">>
Digits == <<"0", "1", "2", "3", "4", "5", "6", "7", "8", "9">>

\* the position of character c in the sequence t, 0 when it is not there
IndexIn(c, t) ==
    IF \E i \in 1..Len(t) : t[i] = c
    THEN CHOOSE i \in 1..Len(t) : t[i] = c
    ELSE 0

\* str.upper(), str.lower() and str.strip()
upper(s) ==
    [i \in 1..Len(s) |->
        IF IndexIn(s[i], LowerCase) # 0 THEN UpperCase[IndexIn(s[i], LowerCase)]
        ELSE s[i]]
lower(s) ==
    [i \in 1..Len(s) |->
        IF IndexIn(s[i], UpperCase) # 0 THEN LowerCase[IndexIn(s[i], UpperCase)]
        ELSE s[i]]
IsSpace(c) == c \in {" ", "\n", "\t"}
RECURSIVE lstrip(_)
lstrip(s) == IF s # <<>> /\ IsSpace(Head(s)) THEN lstrip(Tail(s)) ELSE s
RECURSIVE rstrip(_)
rstrip(s) ==
    IF s # <<>> /\ IsSpace(s[Len(s)]) THEN rstrip(SubSeq(s, 1, Len(s) - 1)) ELSE s
strip(s) == rstrip(lstrip(s))

\* ROMAN_VALUES
ROMAN_VALUES ==
    [c \in {"I", "V", "X", "L", "C", "D", "M"} |->
        CASE c = "I" -> 1 [] c = "V" -> 5 [] c = "X" -> 10 [] c = "L" -> 50
          [] c = "C" -> 100 [] c = "D" -> 500 [] c = "M" -> 1000]

\* the loop "for c in reversed(s)" of _roman_to_int, at position i with the
\* running total and the value of the character to the right
RECURSIVE RomanLoop(_, _, _, _)
RomanLoop(s, i, total, prev) ==
    IF i = 0 THEN total
    ELSE LET val == ROMAN_VALUES[s[i]] IN
         RomanLoop(s, i - 1, IF val < prev THEN total - val ELSE total + val, val)

\* "return total if 0 < total < 200 else None"
roman_unbounded(total) == 0 < total
roman_in_range(total) == 0 < total /\ total < ROMAN_LIMIT

\* _roman_to_int(s)
_roman_to_int(s0) ==
    LET s == strip(upper(s0)) IN
    IF s = <<>> \/ \E i \in 1..Len(s) : s[i] \notin DOMAIN ROMAN_VALUES
    THEN None
    ELSE LET total == RomanLoop(s, Len(s), 0, 0) IN
         IF roman_in_range(total) THEN Some(total) ELSE None

\* WORD_TO_NUM
WORD_TO_NUM ==
    {
    [word |-> <<"o", "n", "e">>, num |-> 1],
    [word |-> <<"t", "w", "o">>, num |-> 2],
    [word |-> <<"t", "h", "r", "e", "e">>, num |-> 3],
    [word |-> <<"f", "o", "u", "r">>, num |-> 4],
    [word |-> <<"f", "i", "v", "e">>, num |-> 5],
    [word |-> <<"s", "i", "x">>, num |-> 6],
    [word |-> <<"s", "e", "v", "e", "n">>, num |-> 7],
    [word |-> <<"e", "i", "g", "h", "t">>, num |-> 8],
    [word |-> <<"n", "i", "n", "e">>, num |-> 9],
    [word |-> <<"t", "e", "n">>, num |-> 10],
    [word |-> <<"e", "l", "e", "v", "e", "n">>, num |-> 11],
    [word |-> <<"t", "w", "e", "l", "v", "e">>, num |-> 12],
    [word |-> <<"t", "h", "i", "r", "t", "e", "e", "n">>, num |-> 13],
    [word |-> <<"f", "o", "u", "r", "t", "e", "e", "n">>, num |-> 14],
    [word |-> <<"f", "i", "f", "t", "e", "e", "n">>, num |-> 15],
    [word |-> <<"s", "i", "x", "t", "e", "e", "n">>, num |-> 16],
    [word |-> <<"s", "e", "v", "e", "n", "t", "e", "e", "n">>, num |-> 17],
    [word |-> <<"e", "i", "g", "h", "t", "e", "e", "n">>, num |-> 18],
    [word |-> <<"n", "i", "n", "e", "t", "e", "e", "n">>, num |-> 19],
    [word |-> <<"t", "w", "e", "n", "t", "y">>, num |-> 20],
    [word |-> <<"t", "w", "e", "n", "t", "y", "-", "o", "n", "e">>, num |-> 21],
    [word |-> <<"t", "w", "e", "n", "t", "y", "-", "t", "w", "o">>, num |-> 22],
    [word |-> <<"t", "w", "e", "n", "t", "y", "-", "t", "h", "r", "e", "e">>, num |-> 23],
    [word |-> <<"t", "w", "e", "n", "t", "y", "-", "f", "o", "u", "r">>, num |-> 24],
    [word |-> <<"t", "w", "e", "n", "t", "y", "-", "f", "i", "v", "e">>, num |-> 25],
    [word |-> <<"t", "w", "e", "n", "t", "y", "-", "s", "i", "x">>, num |-> 26],
    [word |-> <<"t", "w", "e", "n", "t", "y", "-", "s", "e", "v", "e", "n">>, num |-> 27],
    [word |-> <<"t", "w", "e", "n", "t", "y", "-", "e", "i", "g", "h", "t">>, num |-> 28],
    [word |-> <<"t", "w", "e", "n", "t", "y", "-", "n", "i", "n", "e">>, num |-> 29],
    [word |-> <<"t", "h", "i", "r", "t", "y">>, num |-> 30]
    }

\* str.isdigit() and int(s) of a string of ASCII digits
isdigit(s) == s # <<>> /\ \A i \in 1..Len(s) : IndexIn(s[i], Digits) # 0
RECURSIVE int(_)
int(s) ==
    IF s = <<>> THEN 0
    ELSE 10 * int(SubSeq(s, 1, Len(s) - 1)) + (IndexIn(s[Len(s)], Digits) - 1)

\* s.lower().replace("\u2010", "-").replace("\u2011", "-"); the two Unicode
\* hyphens are written "U+2010" and "U+2011"
hyphens(s) ==
    [i \in 1..Len(s) |-> IF s[i] \in {"U+2010", "U+2011"} THEN "-" ELSE s[i]]

\* _parse_number(s)
_parse_number(s0) ==
    LET s == strip(s0)
        low == hyphens(lower(s))
    IN  IF isdigit(s) THEN Some(int(s))
        ELSE IF \E e \in WORD_TO_NUM : e.word = low
        THEN Some((CHOOSE e \in WORD_TO_NUM : e.word = low).num)
        ELSE _roman_to_int(s)

(* ------------------------------------------------------------------ *)
(* _clean_for_tts: the four substitutions and the paragraph join.      *)
(* The superscript digit one is written "sup1", the en dash "U+2013"   *)
(* ------------------------------------------------------------------ *)
IsDigit(c) == IndexIn(c, Digits) # 0
IsLetter(c) == IndexIn(c, LowerCase) # 0 \/ IndexIn(c, UpperCase) # 0
Superscripts ==
    {"sup0", "sup1", "sup2", "sup3", "sup4", "sup5", "sup6", "sup7", "sup8", "sup9"}
Punctuation == {".", ",", ";", ":", "!", "?"}

\* TTS_PAUSE with the blank on each side that the join puts around it
PauseBetween ==
    <<" ", "T", "T", "S", "P", "A", "U", "S", "E", "B", "R", "E", "A", "K", " ">>

\* 1. re.sub(r'[sup0-sup9]+', '', text)
remove_superscripts(s) == SelectSeq(s, LAMBDA c : c \notin Superscripts)

\* 2. re.sub(r'\[\d[\d,\-U+2013\s]*\]', '', text): the length of the match that
\* begins at position i, 0 when there is none
InReference(c) == IsDigit(c) \/ c \in {",", "-", "U+2013"} \/ IsSpace(c)
RECURSIVE ReferenceEnd(_, _)
ReferenceEnd(s, j) ==
    IF j > Len(s) \/ ~InReference(s[j]) THEN j ELSE ReferenceEnd(s, j + 1)
ReferenceAt(s, i) ==
    IF i + 1 <= Len(s) /\ s[i] = "[" /\ IsDigit(s[i + 1])
    THEN LET e == ReferenceEnd(s, i + 2) IN
         IF e <= Len(s) /\ s[e] = "]" THEN e - i + 1 ELSE 0
    ELSE 0
RECURSIVE RemoveReferences(_, _)
RemoveReferences(s, i) ==
    IF i > Len(s) THEN <<>>
    ELSE IF ReferenceAt(s, i) > 0 THEN RemoveReferences(s, i + ReferenceAt(s, i))
    ELSE <<s[i]>> \o RemoveReferences(s, i + 1)
remove_references(s) == RemoveReferences(s, 1)

\* 3. the footnote number glued to a word: one to three digits (as many as
\* possible) after a letter or after a letter and a punctuation mark, before
\* white space, the end, a punctuation mark or ")"
AfterWord(s, i) ==
    \/ i > 1 /\ IsLetter(s[i - 1])
    \/ i > 2 /\ IsLetter(s[i - 2]) /\ s[i - 1] \in Punctuation
BeforeBreak(s, j) ==
    j > Len(s) \/ IsSpace(s[j]) \/ s[j] \in Punctuation \cup {")"}
DigitsAt(s, i, k) ==
    i + k - 1 <= Len(s) /\ \A m \in i..(i + k - 1) : IsDigit(s[m])
FootnoteAt(s, i) ==
    IF ~AfterWord(s, i) THEN 0
    ELSE IF DigitsAt(s, i, 3) /\ BeforeBreak(s, i + 3) THEN 3
    ELSE IF DigitsAt(s, i, 2) /\ BeforeBreak(s, i + 2) THEN 2
    ELSE IF DigitsAt(s, i, 1) /\ BeforeBreak(s, i + 1) THEN 1
    ELSE 0
RECURSIVE RemoveFootnotes(_, _)
RemoveFootnotes(s, i) ==
    IF i > Len(s) THEN <<>>
    ELSE IF FootnoteAt(s, i) > 0 THEN RemoveFootnotes(s, i + FootnoteAt(s, i))
    ELSE <<s[i]>> \o RemoveFootnotes(s, i + 1)
remove_footnotes(s) == RemoveFootnotes(s, 1)

\* 4. re.sub(r'  +', ' ', text)
RECURSIVE BlanksEnd(_, _)
BlanksEnd(s, j) == IF j > Len(s) \/ s[j] # " " THEN j ELSE BlanksEnd(s, j + 1)
RECURSIVE CollapseBlanks(_, _)
CollapseBlanks(s, i) ==
    IF i > Len(s) THEN <<>>
    ELSE IF s[i] = " " /\ i + 1 <= Len(s) /\ s[i + 1] = " "
    THEN <<" ">> \o CollapseBlanks(s, BlanksEnd(s, i))
    ELSE <<s[i]>> \o CollapseBlanks(s, i + 1)
collapse_blanks(s) == CollapseBlanks(s, 1)

\* 5. text.split("\n\n"): the paragraphs from position i on, cur being the part
\* of the current one already read
RECURSIVE SplitParagraphs(_, _, _)
SplitParagraphs(s, i, cur) ==
    IF i > Len(s) THEN <<cur>>
    ELSE IF s[i] = "\n" /\ i + 1 <= Len(s) /\ s[i + 1] = "\n"
    THEN <<cur>> \o SplitParagraphs(s, i + 2, <<>>)
    ELSE SplitParagraphs(s, i + 1, Append(cur, s[i]))

\* (" " + TTS_PAUSE + " ").join(processed)
RECURSIVE JoinParagraphs(_)
JoinParagraphs(ps) ==
    IF ps = <<>> THEN <<>>
    ELSE IF Len(ps) = 1 THEN ps[1]
    ELSE ps[1] \o PauseBetween \o JoinParagraphs(Tail(ps))

\* the paragraphs stripped, the empty ones dropped, the rest joined
join_paragraphs(s) ==
    LET ps == SplitParagraphs(s, 1, <<>>)
        stripped == [i \in 1..Len(ps) |-> strip(ps[i])]
    IN  JoinParagraphs(SelectSeq(stripped, LAMBDA q : q # <<>>))

\* _clean_for_tts(text)
_clean_for_tts(text) ==
    join_paragraphs(collapse_blanks(remove_footnotes(
        remove_references(remove_superscripts(text)))))

(* ------------------------------------------------------------------ *)
(* Specifications                                                      *)
(* ------------------------------------------------------------------ *)
\* the steps of run_conversion alone
FileSteps(j) ==
    \/ P5Check(j) \/ P5Set(j) \/ Finally(j)

\* the steps shared by run_conversion and run_chapter_conversion when nothing fails
ConversionSteps(j) ==
    \/ P20Check(j) \/ P20Set(j)
    \/ StreamChunk(j) \/ StreamEnd(j)
    \/ CallbackCheck(j) \/ CallbackSet(j) \/ P95Check(j) \/ P95Set(j)
    \/ FinalCheck(j) \/ Complete(j) \/ ChapterDone(j)

\* the steps taken after a cancellation was seen by update_progress or the final check
InterruptSteps(j) ==
    \/ Interrupted(j) \/ ChapterInterrupted(j) \/ RemovePartial(j)

\* a failure and the steps of "except Exception"
FailureSteps(j) ==
    \/ ChapterTextEmpty(j) \/ StreamFail(j) \/ Error(j) \/ ChapterError(j)

\* the steps of run_chapter_conversion_throttled around run_chapter_conversion
ThrottledSteps(j) ==
    \/ SemAcquire(j) \/ Recheck(j)
    \/ ThrottledCancelJob(j) \/ ThrottledCancelChapter(j) \/ Release(j)

\* the polling loop of run_chapter_conversion_throttled: taken only when the
\* semaphore has run out, which needs more than MAX_CONCURRENT_CHAPTERS workers
PollSteps(j) ==
    \/ SemTimeout(j) \/ PollCheck(j)

\* one step of the worker thread of job j
Worker(j) ==
    \/ FileSteps(j) \/ ConversionSteps(j) \/ StreamSilence(j) \/ InterruptSteps(j)
    \/ FailureSteps(j) \/ ThrottledSteps(j)

Next ==
    \/ ApiAnalyze
    \/ ApiConvert
    \/ \E c \in Chapters : ConvertChapterCheck(c)
    \/ \E c \in Chapters : ConvertChapterCreate(c)
    \/ ConvertAllBegin
    \/ ConvertAllSkip
    \/ ConvertAllSpawn
    \/ \E j \in Jobs : CancelCheck(j)
    \/ \E j \in Jobs : CancelWrite(j)
    \/ CancelBookBegin
    \/ CancelBookJob
    \/ CancelBookChapter
    \/ \E j \in Jobs : Worker(j)

Spec == Init /\ [][Next]_vars

(* ------------------------------------------------------------------ *)
(* The chapter workers of a larger book, with one-chunk texts, no      *)
(* failures and no cancellation: convert_all beside convert_chapter    *)
(* ------------------------------------------------------------------ *)
InitSem ==
    InitWith(OwnerOnly(
             [jobs |-> SemChapters, chapters |-> SemChapters, segs |-> 1,
              chunks |-> 1, alls |-> MaxConvertAll, cbooks |-> MaxCancelBook,
              cchs |-> MaxConvertChapter, inflight |-> MaxInflight]))

\* one step of a chapter worker when nothing fails and nothing is cancelled
QuietWorker(j) ==
    \/ ConversionSteps(j) \/ PollSteps(j)
    \/ SemAcquire(j) \/ Recheck(j) \/ Release(j)

NextSem ==
    \/ ApiAnalyze
    \/ \E c \in Chapters : ConvertChapterCheck(c)
    \/ \E c \in Chapters : ConvertChapterCreate(c)
    \/ ConvertAllBegin
    \/ ConvertAllSkip
    \/ ConvertAllSpawn
    \/ \E j \in Jobs : QuietWorker(j)

SpecSem == InitSem /\ [][NextSem]_vars

(* ------------------------------------------------------------------ *)
(* The cancellation scenario: convert_all on a book, then cancel-book; *)
(* no failures                                                         *)
(* ------------------------------------------------------------------ *)
InitCancel ==
    InitWith(OwnerOnly(
             [jobs |-> CancelChapters, chapters |-> CancelChapters, segs |-> 1,
              chunks |-> 1, alls |-> MaxConvertAll, cbooks |-> MaxCancelBook,
              cchs |-> MaxConvertChapter, inflight |-> MaxInflight]))

\* one step of a chapter worker that does not fail; the book has no more chapters
\* than the semaphore has permits, so no worker polls
ChapterWorker(j) ==
    \/ ConversionSteps(j) \/ InterruptSteps(j) \/ ThrottledSteps(j)

\* convert_all has returned after starting a worker for every chapter
AllStarted ==
    /\ book.state = "present"
    /\ convAll.idx = 0
    /\ \A c \in Chapters : book.chapters[c].job_id # 0

\* the book is cancelled once convert_all has started its workers
CancelBookAfterAll == AllStarted /\ CancelBookBegin

NextCancel ==
    \/ ApiAnalyze
    \/ ConvertAllBegin
    \/ ConvertAllSpawn
    \/ CancelBookAfterAll
    \/ CancelBookJob
    \/ CancelBookChapter
    \/ \E j \in Jobs : ChapterWorker(j)

\* threads are scheduled fairly: every worker thread and every request handler
\* that can take a step eventually takes one (the client may never cancel)
FairCancel ==
    /\ \A j \in 1..CancelChapters : WF_vars(j \in Jobs /\ ChapterWorker(j))
    /\ WF_vars(ApiAnalyze \/ ConvertAllBegin \/ ConvertAllSpawn
               \/ CancelBookJob \/ CancelBookChapter)

SpecCancel == InitCancel /\ [][NextCancel]_vars /\ FairCancel

(* ------------------------------------------------------------------ *)
(* Idle cleanup: api_convert requests whose cleanup_old_files finds    *)
(* old output files and an old book record, beside conversions of      *)
(* one-chunk texts; no cancellation                                    *)
(* ------------------------------------------------------------------ *)
InitCleanup ==
    InitWith(OwnerOnly(
             [jobs |-> MaxJobs, chapters |-> NumChapters, segs |-> 1,
              chunks |-> 1, alls |-> 0, cbooks |-> 0, cchs |-> MaxJobs,
              inflight |-> MaxInflight]))

\* one step of a worker that is not cancelled
UncancelledWorker(j) ==
    \/ FileSteps(j) \/ ConversionSteps(j) \/ FailureSteps(j)

NextCleanup ==
    \/ ApiAnalyze
    \/ ApiConvert
    \/ CleanupOldFiles
    \/ \E j \in Jobs : CleanupOutput(j)
    \/ \E c \in Chapters : ConvertChapterCheck(c)
    \/ \E c \in Chapters : ConvertChapterCreate(c)
    \/ \E j \in Jobs : UncancelledWorker(j)

SpecCleanup == InitCleanup /\ [][NextCleanup]_vars

(* ------------------------------------------------------------------ *)
(* One job and a client that cancels, streams the progress and         *)
(* downloads; the client is the owner, another user, or has no token   *)
(* ------------------------------------------------------------------ *)
Clients == {BookOwner, OtherUser, Anonymous}

InitClient ==
    \E u \in Clients, cr \in {BookOwner, Anonymous} :
        InitWith([jobs |-> 1, chapters |-> 1, segs |-> 1, chunks |-> 1,
                  alls |-> 0, cbooks |-> MaxCancelBook, cchs |-> 1,
                  inflight |-> MaxInflight, client |-> u, creator |-> cr,
                  words |-> {SmallChapter}, polls |-> MaxPolls])

\* one step of the worker of a single-file or chapter job
ClientWorker(j) ==
    \/ FileSteps(j) \/ ConversionSteps(j) \/ InterruptSteps(j) \/ FailureSteps(j)

\* one step of api_progress.generate
Stream ==
    \/ StreamLookup \/ StreamReadStatus \/ StreamReadProgress \/ StreamEmit
    \/ StreamTerminalCheck \/ StreamSleep

NextClient ==
    \/ ApiAnalyze
    \/ ApiConvert
    \/ \E c \in Chapters : ConvertChapterCheck(c)
    \/ \E c \in Chapters : ConvertChapterCreate(c)
    \/ \E j \in Jobs : CancelCheck(j)
    \/ \E j \in Jobs : CancelWrite(j)
    \/ CancelBookBegin
    \/ CancelBookJob
    \/ CancelBookChapter
    \/ \E j \in {0} \cup Jobs : StreamOpen(j)
    \/ Stream
    \/ \E j \in Jobs : ApiDownload(j)
    \/ \E j \in Jobs : ClientWorker(j)

SpecClient == InitClient /\ [][NextClient]_vars

(* ------------------------------------------------------------------ *)
(* The word limit: a book of two chapters whose word counts sum to the *)
(* limit, to one more or to two more; nothing fails, nothing is        *)
(* cancelled                                                           *)
(* ------------------------------------------------------------------ *)
InitWords ==
    InitWith([jobs |-> WordsChapters, chapters |-> WordsChapters, segs |-> 1,
              chunks |-> 1, alls |-> MaxConvertAll, cbooks |-> 0,
              cchs |-> MaxConvertChapter, inflight |-> MaxInflight,
              client |-> BookOwner, creator |-> BookOwner,
              words |-> {HalfLimit, HalfLimit + 1}, polls |-> 0])

\* one step of a chapter worker that neither fails nor waits for the semaphore
WordsWorker(j) ==
    \/ ConversionSteps(j) \/ SemAcquire(j) \/ Recheck(j) \/ Release(j)

NextWords ==
    \/ ApiAnalyze
    \/ \E c \in Chapters : ConvertChapterCheck(c)
    \/ \E c \in Chapters : ConvertChapterCreate(c)
    \/ ConvertAllBegin
    \/ ConvertAllSkip
    \/ ConvertAllSpawn
    \/ \E j \in Jobs : WordsWorker(j)

SpecWords == InitWords /\ [][NextWords]_vars

(* ------------------------------------------------------------------ *)
(* Two requests at once on a book of one chapter: a convert_chapter    *)
(* and a convert_all; nothing fails, nothing is cancelled              *)
(* ------------------------------------------------------------------ *)
InitRace ==
    InitWith(OwnerOnly(
             [jobs |-> MaxRacing, chapters |-> 1, segs |-> 1, chunks |-> 1,
              alls |-> MaxConvertAll, cbooks |-> 0, cchs |-> MaxConvertChapter,
              inflight |-> MaxRacing]))

NextRace ==
    \/ ApiAnalyze
    \/ \E c \in Chapters : ConvertChapterCheck(c)
    \/ \E c \in Chapters : ConvertChapterCreate(c)
    \/ ConvertAllBegin
    \/ ConvertAllSkip
    \/ ConvertAllSpawn
    \/ \E j \in Jobs : WordsWorker(j)

SpecRace == InitRace /\ [][NextRace]_vars

(* ------------------------------------------------------------------ *)
(* Submissions by every kind of caller, with their refusals; nothing   *)
(* fails in the workers and nothing is cancelled                       *)
(* ------------------------------------------------------------------ *)
InitGate ==
    \E cr \in {BookOwner, Anonymous} :
        InitWith([jobs |-> GateJobs, chapters |-> 1, segs |-> 1, chunks |-> 1,
                  alls |-> MaxConvertAll, cbooks |-> 0, cchs |-> MaxConvertChapter,
                  inflight |-> MaxInflight, client |-> BookOwner, creator |-> cr,
                  words |-> {SmallChapter}, polls |-> 0])

\* the page counts of an upload: at the free-tier cap, and one page more
PageCounts == {FREE_PAGE_LIMIT, FREE_PAGE_LIMIT + 1}

\* what the extraction part of api_analyze can do
Outcomes == {"ok", "bad_segments", "ValueError", "Exception"}

\* one step of a worker that neither fails nor waits
GateWorker(j) ==
    \/ FileSteps(j) \/ ConversionSteps(j)
    \/ SemAcquire(j) \/ Recheck(j) \/ Release(j)

NextGate ==
    \/ \E u \in Callers, ext \in Extensions, manual \in BOOLEAN, o \in Outcomes :
           AnalyzeSubmit(u, ext, manual, o)
    \/ \E u \in Callers, ext \in Extensions, n \in PageCounts, counted \in BOOLEAN :
           ApiConvertSubmit(u, ext, n, counted)
    \/ \E u \in Callers, c \in 0..(lim.chapters + 1) : ConvertChapterSubmit(u, c)
    \/ \E c \in Chapters : ConvertChapterCreate(c)
    \/ \E u \in Callers : ConvertAllSubmit(u)
    \/ ConvertAllSkip
    \/ ConvertAllSpawn
    \/ \E u \in Callers : BookStatus(u)
    \/ \E j \in Jobs : GateWorker(j)

SpecGate == InitGate /\ [][NextGate]_vars

(* ------------------------------------------------------------------ *)
(* The number parser applied to the three written forms of a number    *)
(* ------------------------------------------------------------------ *)
\* the decimal string of n, n > 0
RECURSIVE DecimalOf(_)
DecimalOf(n) ==
    IF n < 10 THEN <<Digits[n + 1]>>
    ELSE Append(DecimalOf(n \div 10), Digits[(n % 10) + 1])

\* the English word for n, 1 <= n <= 30
UnitWords ==
    <<<<"o", "n", "e">>,
      <<"t", "w", "o">>,
      <<"t", "h", "r", "e", "e">>,
      <<"f", "o", "u", "r">>,
      <<"f", "i", "v", "e">>,
      <<"s", "i", "x">>,
      <<"s", "e", "v", "e", "n">>,
      <<"e", "i", "g", "h", "t">>,
      <<"n", "i", "n", "e">>>>
TeenWords ==
    <<<<"t", "e", "n">>,
      <<"e", "l", "e", "v", "e", "n">>,
      <<"t", "w", "e", "l", "v", "e">>,
      <<"t", "h", "i", "r", "t", "e", "e", "n">>,
      <<"f", "o", "u", "r", "t", "e", "e", "n">>,
      <<"f", "i", "f", "t", "e", "e", "n">>,
      <<"s", "i", "x", "t", "e", "e", "n">>,
      <<"s", "e", "v", "e", "n", "t", "e", "e", "n">>,
      <<"e", "i", "g", "h", "t", "e", "e", "n">>,
      <<"n", "i", "n", "e", "t", "e", "e", "n">>>>
EnglishWord(n) ==
    IF n < 10 THEN UnitWords[n]
    ELSE IF n < 20 THEN TeenWords[n - 9]
    ELSE IF n = 20 THEN <<"t", "w", "e", "n", "t", "y">>
    ELSE IF n < 30 THEN <<"t", "w", "e", "n", "t", "y">> \o <<"-">> \o UnitWords[n - 20]
    ELSE <<"t", "h", "i", "r", "t", "y">>

\* the Roman numeral of n in the usual subtractive notation, 0 <= n < 4000
RomanSymbols ==
    <<[v |-> 1000, s |-> <<"M">>], [v |-> 900, s |-> <<"C", "M">>],
      [v |-> 500, s |-> <<"D">>], [v |-> 400, s |-> <<"C", "D">>],
      [v |-> 100, s |-> <<"C">>], [v |-> 90, s |-> <<"X", "C">>],
      [v |-> 50, s |-> <<"L">>], [v |-> 40, s |-> <<"X", "L">>],
      [v |-> 10, s |-> <<"X">>], [v |-> 9, s |-> <<"I", "X">>],
      [v |-> 5, s |-> <<"V">>], [v |-> 4, s |-> <<"I", "V">>],
      [v |-> 1, s |-> <<"I">>]>>
RECURSIVE RomanFrom(_, _)
RomanFrom(n, k) ==
    IF n = 0 THEN <<>>
    ELSE IF RomanSymbols[k].v <= n
    THEN RomanSymbols[k].s \o RomanFrom(n - RomanSymbols[k].v, k)
    ELSE RomanFrom(n, k + 1)
RomanOf(n) == RomanFrom(n, 1)

\* the strings given to the parser: the three forms of 1..30 and the Roman
\* numerals up to MaxRoman
NumberInputs ==
    {[kind |-> "decimal", n |-> n, s |-> DecimalOf(n)] : n \in 1..THIRTY}
    \cup {[kind |-> "word", n |-> n, s |-> EnglishWord(n)] : n \in 1..THIRTY}
    \cup {[kind |-> "roman", n |-> n, s |-> RomanOf(n)] : n \in 1..MaxRoman}

\* a scenario without requests
NoRequests ==
    OwnerOnly([jobs |-> 0, chapters |-> 0, segs |-> 0, chunks |-> 0, alls |-> 0,
               cbooks |-> 0, cchs |-> 0, inflight |-> 0])

InitNumbers ==
    \E i \in NumberInputs :
        InitState(NoRequests, [fn |-> "input", kind |-> i.kind, n |-> i.n,
                               s |-> i.s, result |-> None])

\* _parse_number is applied to the input
ParseNumber ==
    /\ an.fn = "input"
    /\ an' = [an EXCEPT !.fn = "_parse_number", !.result = _parse_number(an.s)]
    /\ UNCHANGED <<lim, req, rd, jobs, thr, files, uploads, book, sems, cancelReq,
                   cancelBook, convCh, convAll, hist>>

\* _roman_to_int is applied to the input
RomanToInt ==
    /\ an.fn = "input"
    /\ an' = [an EXCEPT !.fn = "_roman_to_int", !.result = _roman_to_int(an.s)]
    /\ UNCHANGED <<lim, req, rd, jobs, thr, files, uploads, book, sems, cancelReq,
                   cancelBook, convCh, convAll, hist>>

NextNumbers == ParseNumber \/ RomanToInt

SpecNumbers == InitNumbers /\ [][NextNumbers]_vars

(* ------------------------------------------------------------------ *)
(* The text normalizer applied once and twice to every short text      *)
(* ------------------------------------------------------------------ *)
\* the characters of the texts: a letter, a digit, a punctuation mark, the two
\* brackets, a blank, a line break and a superscript digit
TextChars == {"a", "1", ".", "[", "]", " ", "\n", "sup1"}

Texts == UNION {[1..n -> TextChars] : n \in 0..MaxText}

InitClean ==
    \E t \in Texts :
        InitState(NoRequests, [fn |-> "input", s |-> t, once |-> <<>>, twice |-> <<>>])

\* extract_text: _clean_for_tts(raw)
CleanOnce ==
    /\ an.fn = "input"
    /\ an' = [an EXCEPT !.fn = "clean", !.once = _clean_for_tts(an.s)]
    /\ UNCHANGED <<lim, req, rd, jobs, thr, files, uploads, book, sems, cancelReq,
                   cancelBook, convCh, convAll, hist>>

\* _clean_for_tts applied to its own result
CleanTwice ==
    /\ an.fn = "clean"
    /\ an' = [an EXCEPT !.fn = "clean_clean", !.twice = _clean_for_tts(an.once)]
    /\ UNCHANGED <<lim, req, rd, jobs, thr, files, uploads, book, sems, cancelReq,
                   cancelBook, convCh, convAll, hist>>

NextClean == CleanOnce \/ CleanTwice

SpecClean == InitClean /\ [][NextClean]_vars

(* ------------------------------------------------------------------ *)
(* Chapter detection of the chapter splitter.  A PDF is a record       *)
(* [pages, toc, outline, boundaries]: the number of words of every     *)
(* page, the entries of its printed table of contents, the entries of  *)
(* its outline and the heading boundaries of its pages.  A chapter     *)
(* carries its word count in place of its text                         *)
(* ------------------------------------------------------------------ *)
MAX_CHAPTERS == 60
MIN_WORDS_PER_CHAPTER == 100
PAGE_CHUNK_SIZE == 20

Min(a, b) == IF a < b THEN a ELSE b
Max(a, b) == IF a > b THEN a ELSE b
Abs(a) == IF a < 0 THEN 0 - a ELSE a

\* len(_pages_text(doc, start, end).split()): the words of the pages
\* start .. min(end, len(doc)) - 1, counted from 0
RECURSIVE WordsIn(_, _, _)
WordsIn(doc, start, end) ==
    IF start >= Min(end, Len(doc.pages)) THEN 0
    ELSE doc.pages[start + 1] + WordsIn(doc, start + 1, end)

\* the value of the key chapter_label before _assign_labels has set it
Unlabelled == <<"unset">>
\* page_start and page_end of an EPUB chapter are None
NoPage == 0

\* a chapter dict of the splitter
Chapter(index, st, num, title, ps, pe, wc) ==
    [index |-> index, section_type |-> st, chapter_number |-> num, title |-> title,
     page_start |-> ps, page_end |-> pe, word_count |-> wc,
     chapter_label |-> Unlabelled]

\* "for i, ch in enumerate(chapters): ch['index'] = i"
Reindex(chapters) ==
    [i \in 1..Len(chapters) |-> [chapters[i] EXCEPT !.index = i - 1]]

\* f"Section {idx + 1} (Pages {start + 1}-{end})"
SectionTitle(idx, start, end) ==
    <<"S", "e", "c", "t", "i", "o", "n", " ">> \o DecimalOf(idx + 1) \o <<" ", "(", "P", "a", "g", "e", "s", " ">> \o DecimalOf(start + 1)
        \o <<"-">> \o DecimalOf(end) \o <<")">>

\* the loop of _extract_via_page_chunks at chunk idx, which starts at page start
RECURSIVE PageChunks(_, _, _)
PageChunks(doc, idx, start) ==
    IF start >= Len(doc.pages) THEN <<>>
    ELSE LET end == Min(start + PAGE_CHUNK_SIZE, Len(doc.pages)) IN
         <<Chapter(idx, "chapter", None, SectionTitle(idx, start, end), start + 1, end,
                   WordsIn(doc, start, end))>>
             \o PageChunks(doc, idx + 1, end)

\* page chunks that begin at the second page
chunks_from_second_page(doc) == PageChunks(doc, 0, 1)

\* _extract_via_page_chunks(doc)
_extract_via_page_chunks(doc) == PageChunks(doc, 0, 0)

\* the loop of _extract_via_headings_only over the boundaries sig, at the i-th one
RECURSIVE HeadingChapters(_, _, _, _)
HeadingChapters(doc, sig, i, chapters) ==
    IF i > Len(sig) THEN chapters
    ELSE LET b == sig[i]
             start == b.page
             end == IF i + 1 <= Len(sig) THEN sig[i + 1].page ELSE Len(doc.pages)
             wc == WordsIn(doc, start, end)
         IN  HeadingChapters(doc, sig, i + 1,
                 IF wc < MIN_WORDS_PER_CHAPTER THEN chapters
                 ELSE Append(chapters,
                          Chapter(Len(chapters),
                                  IF b.kind # "unknown" THEN b.kind ELSE "chapter",
                                  b.chapter_number, b.heading_text, start + 1,
                                  Min(end, Len(doc.pages)), wc)))

\* _extract_via_headings_only(doc, boundaries); the result None is the empty list,
\* which the caller treats alike
_extract_via_headings_only(doc, boundaries) ==
    LET sig == SelectSeq(boundaries, LAMBDA b : b.kind # "part")
        chapters == HeadingChapters(doc, sig, 1, <<>>)
    IN  IF Len(boundaries) < 2 \/ Len(sig) < 2 \/ Len(chapters) < 2 THEN <<>>
        ELSE Reindex(chapters)

\* "if st == 'chapter' and num is not None" of _assign_labels
numbered_section(st, num) == num # None
numbered_chapter(st, num) == st = "chapter" /\ num # None

\* _assign_labels(chapters)
_assign_labels(chapters) ==
    [i \in 1..Len(chapters) |->
        LET ch == chapters[i] IN
        IF numbered_chapter(ch.section_type, ch.chapter_number)
        THEN [ch EXCEPT !.chapter_label = <<"C", "h", ".", " ">> \o DecimalOf(ch.chapter_number.val)]
        ELSE [ch EXCEPT !.chapter_label = <<>>,
                        !.section_type = IF @ = "unknown" THEN "chapter" ELSE @]]

\* FRONT_MATTER_WORDS and BACK_MATTER_WORDS
FRONT_MATTER_WORDS ==
    {<<"p", "r", "e", "f", "a", "c", "e">>, <<"i", "n", "t", "r", "o", "d", "u", "c", "t", "i", "o", "n">>, <<"p", "r", "o", "l", "o", "g", "u", "e">>, <<"f", "o", "r", "e", "w", "o", "r", "d">>,
     <<"a", "c", "k", "n", "o", "w", "l", "e", "d", "g", "m", "e", "n", "t", "s">>, <<"a", "c", "k", "n", "o", "w", "l", "e", "d", "g", "e", "m", "e", "n", "t", "s">>, <<"d", "e", "d", "i", "c", "a", "t", "i", "o", "n">>}
BACK_MATTER_WORDS ==
    {<<"e", "p", "i", "l", "o", "g", "u", "e">>, <<"a", "f", "t", "e", "r", "w", "o", "r", "d">>, <<"c", "o", "n", "c", "l", "u", "s", "i", "o", "n">>, <<"b", "i", "b", "l", "i", "o", "g", "r", "a", "p", "h", "y">>,
     <<"g", "l", "o", "s", "s", "a", "r", "y">>, <<"i", "n", "d", "e", "x">>, <<"n", "o", "t", "e", "s">>, <<"a", "p", "p", "e", "n", "d", "i", "x">>, <<"a", "b", "o", "u", "t", " ", "t", "h", "e", " ", "a", "u", "t", "h", "o", "r">>,
     <<"a", "b", "o", "u", "t", " ", "t", "h", "e", " ", "a", "u", "t", "h", "o", "r", "s">>, <<"f", "u", "r", "t", "h", "e", "r", " ", "r", "e", "a", "d", "i", "n", "g">>}

\* re.sub(r"\s+", " ", s)
RECURSIVE SquashSpaces(_)
SquashSpaces(s) ==
    IF s = <<>> THEN <<>>
    ELSE IF IsSpace(Head(s)) THEN <<" ">> \o SquashSpaces(lstrip(s))
    ELSE <<Head(s)>> \o SquashSpaces(Tail(s))

\* _normalize_ws(s); the typographic quotes and dashes are written by their code
\* points
_normalize_ws(s) ==
    strip(SquashSpaces(
        [i \in 1..Len(s) |->
            IF s[i] \in {"U+2018", "U+2019", "U+201C", "U+201D"} THEN "'"
            ELSE IF s[i] \in {"U+2013", "U+2014", "U+2012"} THEN "-"
            ELSE s[i]]))

StartsWith(s, p) == Len(s) >= Len(p) /\ SubSeq(s, 1, Len(p)) = p

\* "low == word or low.startswith(word + ':') or low.startswith(word + ' ')" for
\* one of the words
keyword_match(low, words) ==
    \E w \in words :
        low = w \/ StartsWith(low, w \o <<":">>) \/ StartsWith(low, w \o <<" ">>)

\* the longest prefix of s made of the characters cs
RECURSIVE Run(_, _)
Run(s, cs) ==
    IF s = <<>> \/ Head(s) \notin cs THEN <<>>
    ELSE <<Head(s)>> \o Run(Tail(s), cs)

\* the characters of \d, of [IVXLCDM] without regard to case, and of \w
DigitChars == {Digits[i] : i \in 1..Len(Digits)}
RomanChars == DOMAIN ROMAN_VALUES \cup {"i", "v", "x", "l", "c", "d", "m"}
WordChars ==
    DigitChars \cup {"_"} \cup {LowerCase[i] : i \in 1..Len(LowerCase)}
        \cup {UpperCase[i] : i \in 1..Len(UpperCase)}

\* group 1 of re.match(word + r"\s+(\d+|[IVXLCDM]+|\w+)", s, re.IGNORECASE), the
\* empty string when s does not match
number_after(word, s) ==
    LET rest == SubSeq(s, Len(word) + 1, Len(s))
        tok == lstrip(rest)
        digits == Run(tok, DigitChars)
        roman == Run(tok, RomanChars)
    IN  IF ~StartsWith(lower(s), word) \/ tok = rest THEN <<>>
        ELSE IF digits # <<>> THEN digits
        ELSE IF roman # <<>> THEN roman
        ELSE Run(tok, WordChars)

\* the section type and chapter number that _extract_via_outline reads from a title
outline_section(title_clean) ==
    LET pm == number_after(<<"p", "a", "r", "t">>, title_clean)
        cm == number_after(<<"c", "h", "a", "p", "t", "e", "r">>, title_clean)
        low == lower(title_clean)
    IN  [section_type |->
             IF keyword_match(low, BACK_MATTER_WORDS) THEN "back_matter"
             ELSE IF keyword_match(low, FRONT_MATTER_WORDS) THEN "front_matter"
             ELSE IF cm # <<>> THEN "chapter"
             ELSE IF pm # <<>> THEN "part"
             ELSE "chapter",
         chapter_number |->
             IF cm # <<>> THEN _parse_number(cm)
             ELSE IF pm # <<>> THEN _parse_number(pm)
             ELSE None]

\* "for b in boundaries: if abs(b['page'] - start) <= 2 and
\* b.get('chapter_number')": the number of the first such boundary
nearby_number(boundaries, start) ==
    LET near == SelectSeq(boundaries,
                    LAMBDA b : /\ Abs(b.page - start) <= 2
                               /\ b.chapter_number # None
                               /\ b.chapter_number.val # 0)
    IN  IF near = <<>> THEN None ELSE near[1].chapter_number

\* best_entries of _extract_via_outline: the entries up to the level with the
\* most entries among the levels with three entries or more, the deepest of them
\* when several have as many
best_entries(toc) ==
    LET levels == {toc[i].level : i \in 1..Len(toc)}
        upTo(l) == SelectSeq(toc, LAMBDA e : e.level <= l)
        usable == {l \in levels : Len(upTo(l)) >= 3}
    IN  IF usable = {} THEN <<>>
        ELSE upTo(CHOOSE l \in usable :
                     \A m \in usable :
                         \/ Len(upTo(m)) < Len(upTo(l))
                         \/ Len(upTo(m)) = Len(upTo(l)) /\ m <= l)

\* the loop of _extract_via_outline over best_entries, at the i-th entry
RECURSIVE OutlineChapters(_, _, _, _)
OutlineChapters(doc, entries, i, chapters) ==
    IF i > Len(entries) THEN chapters
    ELSE LET start == Max(0, entries[i].page - 1)
             end == IF i + 1 <= Len(entries) THEN entries[i + 1].page - 1
                    ELSE Len(doc.pages)
             wc == WordsIn(doc, start, end)
             title_clean == _normalize_ws(entries[i].title)
             sec == outline_section(title_clean)
             ch_num == IF sec.chapter_number = None /\ sec.section_type = "chapter"
                       THEN nearby_number(doc.boundaries, start)
                       ELSE sec.chapter_number
         IN  OutlineChapters(doc, entries, i + 1,
                 IF wc < 30 THEN chapters
                 ELSE Append(chapters,
                          Chapter(Len(chapters), sec.section_type, ch_num, title_clean,
                                  start + 1, Min(end, Len(doc.pages)), wc)))

\* "chapters = [c for c in chapters if c['word_count'] >= 50]"
long_enough(chapters) == SelectSeq(chapters, LAMBDA c : c.word_count >= 50)

\* _extract_via_outline(doc, boundaries); the result None is the empty list
_extract_via_outline(doc) ==
    LET entries == best_entries(doc.outline)
        chapters == long_enough(OutlineChapters(doc, entries, 1, <<>>))
    IN  IF Len(entries) < 2 \/ Len(chapters) < 2 THEN <<>>
        ELSE Reindex(chapters)

\* list.sort(key=...) of a list of [key, item] records: the sort is stable
RECURSIVE SortByKey(_)
SortByKey(s) ==
    IF s = <<>> THEN <<>>
    ELSE LET front == SortByKey(SubSeq(s, 1, Len(s) - 1))
             x == s[Len(s)]
             k == Cardinality({i \in 1..Len(front) : front[i].key <= x.key})
         IN  SubSeq(front, 1, k) \o <<x>> \o SubSeq(front, k + 1, Len(front))

\* int(statistics.median(offsets)) of a list that is not empty: the middle value,
\* or the mean of the two middle values cut off towards zero
median(offsets) ==
    LET s == SortByKey([i \in 1..Len(offsets) |-> [key |-> offsets[i]]])
        n == Len(s)
        two == s[n \div 2].key + s[(n \div 2) + 1].key
    IN  IF n % 2 = 1 THEN s[(n + 1) \div 2].key
        ELSE IF two >= 0 THEN two \div 2
        ELSE 0 - ((0 - two) \div 2)

\* "p in s" of two strings
Contains(s, p) == \E i \in 0..(Len(s) - Len(p)) : SubSeq(s, i + 1, i + Len(p)) = p

\* _alpha(s) of _titles_match: re.sub(r"[^a-z0-9]", "", s.lower())
_alpha(s) ==
    SelectSeq(lower(s), LAMBDA c : IsDigit(c) \/ IndexIn(c, LowerCase) # 0)

\* the matching blocks of difflib.SequenceMatcher(None, a, b): the number of
\* characters in the longest common block, the one that starts first in a and
\* then first in b, and in the blocks to its left and to its right
RECURSIVE MatchingChars(_, _)
MatchingChars(a, b) ==
    LET blocks == {blk \in (1..Len(a)) \X (1..Len(b)) \X (1..Min(Len(a), Len(b))) :
                      /\ blk[1] + blk[3] - 1 <= Len(a)
                      /\ blk[2] + blk[3] - 1 <= Len(b)
                      /\ SubSeq(a, blk[1], blk[1] + blk[3] - 1)
                             = SubSeq(b, blk[2], blk[2] + blk[3] - 1)}
    IN  IF blocks = {} THEN 0
        ELSE LET m == CHOOSE x \in blocks :
                          \A y \in blocks :
                              \/ y[3] < x[3]
                              \/ y[3] = x[3] /\ x[1] < y[1]
                              \/ y[3] = x[3] /\ x[1] = y[1] /\ x[2] <= y[2]
             IN  m[3] + MatchingChars(SubSeq(a, 1, m[1] - 1), SubSeq(b, 1, m[2] - 1))
                      + MatchingChars(SubSeq(a, m[1] + m[3], Len(a)),
                                      SubSeq(b, m[2] + m[3], Len(b)))

\* _titles_match(a, b); ratio() is 2 * matches / (len(na) + len(nb))
_titles_match(a, b) ==
    LET na == _alpha(a)
        nb == _alpha(b)
    IN  IF Len(na) < 4 \/ Len(nb) < 4 THEN FALSE
        ELSE IF Contains(nb, na) \/ Contains(na, nb) THEN TRUE
        ELSE 8 * MatchingChars(na, nb) >= 3 * (Len(na) + Len(nb))

\* Step 1 of _align_toc_to_boundaries: the offsets of the numbered entries, and of
\* the front matter entries when there are none
chapter_offsets(toc_entries, boundaries) ==
    LET found(e) == SelectSeq(boundaries,
                        LAMBDA b : b.chapter_number = e.chapter_number
                                   /\ b.kind = "chapter")
        located == SelectSeq(toc_entries,
                       LAMBDA e : e.toc_page # None /\ e.chapter_number # None
                                  /\ found(e) # <<>>)
    IN  [i \in 1..Len(located) |->
            found(located[i])[1].page - (located[i].toc_page.val - 1)]

front_matter_offsets(toc_entries, boundaries) ==
    LET found(e) == SelectSeq(boundaries,
                        LAMBDA b : /\ b.kind = "front_matter"
                                   /\ b.heading_text # <<>>
                                   /\ \/ Contains(lower(e.title), lower(b.heading_text))
                                      \/ Contains(lower(b.heading_text), lower(e.title)))
        located == SelectSeq(toc_entries,
                       LAMBDA e : e.toc_page # None /\ e.kind = "front_matter"
                                  /\ found(e) # <<>>)
    IN  [i \in 1..Len(located) |->
            found(located[i])[1].page - (located[i].toc_page.val - 1)]

page_offset(toc_entries, boundaries) ==
    LET offsets == IF chapter_offsets(toc_entries, boundaries) # <<>>
                   THEN chapter_offsets(toc_entries, boundaries)
                   ELSE front_matter_offsets(toc_entries, boundaries)
    IN  IF offsets # <<>> THEN median(offsets) ELSE 0

\* the boundaries bs in the order of their distance from the page expected
closest_first(bs, expected) ==
    LET s == SortByKey([i \in 1..Len(bs) |->
                           [key |-> Abs(bs[i].page - expected), item |-> bs[i]]])
    IN  [i \in 1..Len(s) |-> s[i].item]

\* best_boundary of Step 2 for one entry: the list with the boundary, or the empty
\* list for None
best_boundary(entry, boundaries, offset, used) ==
    LET free == SelectSeq(boundaries, LAMBDA b : b.page \notin used)
        expected == (entry.toc_page.val - 1) + offset
        numbered == SelectSeq(free, LAMBDA b : b.chapter_number = entry.chapter_number)
        close == SelectSeq(free, LAMBDA b : Abs(b.page - expected) <= 3)
        titled == SelectSeq(free, LAMBDA b : /\ b.heading_text # <<>>
                                             /\ _titles_match(entry.title, b.heading_text))
    IN  IF entry.chapter_number # None /\ numbered # <<>>
        THEN IF entry.toc_page # None THEN <<closest_first(numbered, expected)[1]>>
             ELSE <<numbered[1]>>
        ELSE IF entry.toc_page # None /\ close # <<>>
        THEN <<closest_first(close, expected)[1]>>
        ELSE IF titled # <<>> THEN <<titled[1]>>
        ELSE <<>>

\* the loop of Step 2 at the i-th entry, with used_boundaries and aligned
RECURSIVE AlignEntries(_, _, _, _, _, _)
AlignEntries(toc_entries, boundaries, offset, i, used, aligned) ==
    IF i > Len(toc_entries) THEN aligned
    ELSE LET entry == toc_entries[i]
             best == best_boundary(entry, boundaries, offset, used)
         IN  IF entry.kind = "part"
             THEN AlignEntries(toc_entries, boundaries, offset, i + 1, used, aligned)
             ELSE IF best # <<>>
             THEN AlignEntries(toc_entries, boundaries, offset, i + 1,
                      used \cup {best[1].page},
                      Append(aligned,
                          [start_page |-> best[1].page,
                           chapter_number |->
                               IF entry.chapter_number # None THEN entry.chapter_number
                               ELSE best[1].chapter_number,
                           kind |-> IF /\ best[1].kind \in {"front_matter", "back_matter"}
                                       /\ entry.kind = "chapter"
                                    THEN best[1].kind ELSE entry.kind,
                           title |-> entry.title]))
             ELSE IF entry.toc_page # None
             THEN AlignEntries(toc_entries, boundaries, offset, i + 1, used,
                      Append(aligned,
                          [start_page |-> Max(0, (entry.toc_page.val - 1) + offset),
                           chapter_number |-> entry.chapter_number,
                           kind |-> entry.kind,
                           title |-> entry.title]))
             ELSE AlignEntries(toc_entries, boundaries, offset, i + 1, used, aligned)

\* "aligned.sort(key=lambda x: x['start_page'])"
sort_by_start(aligned) ==
    LET s == SortByKey([i \in 1..Len(aligned) |->
                           [key |-> aligned[i].start_page, item |-> aligned[i]]])
    IN  [i \in 1..Len(s) |-> s[i].item]

\* "Deduplicate (same start page keeps first)"
RECURSIVE deduped(_)
deduped(aligned) ==
    IF Len(aligned) < 2 THEN aligned
    ELSE LET front == deduped(SubSeq(aligned, 1, Len(aligned) - 1))
             item == aligned[Len(aligned)]
         IN  IF item.start_page # front[Len(front)].start_page
             THEN Append(front, item) ELSE front

\* the loop of Step 3 over the aligned records, at the i-th one
RECURSIVE TocChapters(_, _, _, _)
TocChapters(doc, aligned, i, chapters) ==
    IF i > Len(aligned) THEN chapters
    ELSE LET item == aligned[i]
             start == item.start_page
             end == IF i + 1 <= Len(aligned) THEN aligned[i + 1].start_page
                    ELSE Len(doc.pages)
             wc == WordsIn(doc, start, end)
         IN  TocChapters(doc, aligned, i + 1,
                 IF wc < 30 THEN chapters
                 ELSE Append(chapters,
                          Chapter(Len(chapters), item.kind, item.chapter_number,
                                  item.title, start + 1, end, wc)))

\* _align_toc_to_boundaries(toc_entries, boundaries, doc)
_align_toc_to_boundaries(doc) ==
    LET offset == page_offset(doc.toc, doc.boundaries)
        aligned == AlignEntries(doc.toc, doc.boundaries, offset, 1, {}, <<>>)
    IN  TocChapters(doc, deduped(sort_by_start(aligned)), 1, <<>>)

\* the result of an analysis: the chapters and the detection method, or an error
Detected(chapters, method) == [ok |-> TRUE, chapters |-> chapters, method |-> method]
NotDetected == [ok |-> FALSE, chapters |-> <<>>, method |-> ""]

\* extract_chapters_pdf with the heading pass tried before the outline pass
headings_before_outline(doc) ==
    LET aligned == IF Len(doc.toc) >= 3 THEN _align_toc_to_boundaries(doc) ELSE <<>>
        outline == IF doc.outline # <<>> THEN _extract_via_outline(doc) ELSE <<>>
        headings == _extract_via_headings_only(doc, doc.boundaries)
    IN  IF doc.encrypted \/ Len(doc.pages) = 0 THEN NotDetected
        ELSE IF Len(aligned) >= 2 THEN Detected(_assign_labels(aligned), "toc")
        ELSE IF Len(headings) >= 2 THEN Detected(_assign_labels(headings), "headings")
        ELSE IF Len(outline) >= 2 THEN Detected(_assign_labels(outline), "toc")
        ELSE Detected(_assign_labels(_extract_via_page_chunks(doc)), "auto_sections")

\* extract_chapters_pdf(filepath): the first path that yields two chapters or
\* more, and the page chunks when none does
extract_chapters_pdf(doc) ==
    LET aligned == IF Len(doc.toc) >= 3 THEN _align_toc_to_boundaries(doc) ELSE <<>>
        outline == IF doc.outline # <<>> THEN _extract_via_outline(doc) ELSE <<>>
        headings == _extract_via_headings_only(doc, doc.boundaries)
    IN  IF doc.encrypted \/ Len(doc.pages) = 0 THEN NotDetected
        ELSE IF Len(aligned) >= 2 THEN Detected(_assign_labels(aligned), "toc")
        ELSE IF Len(outline) >= 2 THEN Detected(_assign_labels(outline), "toc")
        ELSE IF Len(headings) >= 2 THEN Detected(_assign_labels(headings), "headings")
        ELSE Detected(_assign_labels(_extract_via_page_chunks(doc)), "auto_sections")

\* the title of a spine item: of the TOC entry of its href, else of its title tag,
\* else of its first h1 or h2, else f"Chapter {idx + 1}"
item_title(item, idx) ==
    IF item.toc_title # <<>> THEN item.toc_title
    ELSE IF strip(item.title_tag) # <<>> THEN strip(item.title_tag)
    ELSE IF strip(item.heading) # <<>> THEN strip(item.heading)
    ELSE <<"C", "h", "a", "p", "t", "e", "r", " ">> \o DecimalOf(idx + 1)

\* the chapter number of a spine item: of its title, else of the first "chapter N"
\* within the first 500 characters of its text (the field body_number)
item_number(item, title_clean) ==
    LET cm == number_after(<<"c", "h", "a", "p", "t", "e", "r">>, title_clean)
        in_title == IF cm # <<>> THEN _parse_number(cm) ELSE None
    IN  IF in_title # None THEN in_title
        ELSE IF item.body_number # <<>> THEN _parse_number(item.body_number)
        ELSE None

\* the section type that extract_chapters_epub reads from a title
item_section(low) ==
    IF keyword_match(low, BACK_MATTER_WORDS) THEN "back_matter"
    ELSE IF keyword_match(low, FRONT_MATTER_WORDS) THEN "front_matter"
    ELSE "chapter"

\* extract_chapters_epub(filepath): one chapter, in the order of the spine, for
\* every item that is no navigation page and has 50 words or more; idx counts the
\* chapters appended before
extract_chapters_epub(items) ==
    LET kept == SelectSeq(items, LAMBDA item : ~item.nav /\ item.words >= 50)
        chapters ==
            [i \in 1..Len(kept) |->
                LET title_clean == _normalize_ws(item_title(kept[i], i - 1)) IN
                Chapter(i - 1, item_section(lower(title_clean)),
                        item_number(kept[i], title_clean), title_clean,
                        NoPage, NoPage, kept[i].words)]
    IN  IF chapters = <<>> THEN NotDetected
        ELSE Detected(_assign_labels(chapters), "epub_spine")

\* the checks of api_analyze on one manual segment
segment_valid(seg, total_pages) ==
    /\ strip(seg.name) # <<>>
    /\ seg.start_page # None
    /\ seg.end_page # None
    /\ seg.start_page.val >= 1
    /\ seg.end_page.val >= 1
    /\ seg.start_page.val <= total_pages
    /\ seg.end_page.val <= total_pages
    /\ seg.start_page.val <= seg.end_page.val

\* the manual segment mode of api_analyze: one chapter for every segment
manual_chapters(ext, doc, segments) ==
    IF \/ ext # "pdf"
       \/ segments = <<>>
       \/ \E i \in 1..Len(segments) : ~segment_valid(segments[i], Len(doc.pages))
    THEN NotDetected
    ELSE Detected(
             [i \in 1..Len(segments) |->
                 [Chapter(i - 1, "chapter", None, strip(segments[i].name),
                          segments[i].start_page.val, segments[i].end_page.val,
                          WordsIn(doc, segments[i].start_page.val - 1,
                                  segments[i].end_page.val))
                  EXCEPT !.chapter_label = <<>>]],
             "manual")

\* "Guardrail: cap at MAX_CHAPTERS" of api_analyze
uncapped(chapters) == chapters
cap_chapters(chapters) ==
    IF Len(chapters) > MAX_CHAPTERS THEN Reindex(SubSeq(chapters, 1, MAX_CHAPTERS))
    ELSE chapters

(* ------------------------------------------------------------------ *)
(* The analysis applied to small documents                             *)
(* ------------------------------------------------------------------ *)
\* the words of a page: none, fewer than an outline entry needs, and enough for
\* a chapter of any path
PageWords == {0, 40, 120}

ShortPages == UNION {[1..n -> PageWords] : n \in 1..MaxPages}
LongPages == {[i \in 1..LongDoc |-> w] : w \in PageWords}

\* the headings that _detect_heading_boundaries finds on a page
ChapterOne ==
    [kind |-> "chapter", chapter_number |-> Some(1), heading_text |-> <<"O", "r", "i", "g", "i", "n", "s">>]
ChapterTwo ==
    [kind |-> "chapter", chapter_number |-> Some(2), heading_text |-> <<"E", "m", "p", "i", "r", "e">>]
PartOne == [kind |-> "part", chapter_number |-> Some(1), heading_text |-> <<"P", "a", "r", "t", " ", "O", "n", "e">>]
Preface ==
    [kind |-> "front_matter", chapter_number |-> None, heading_text |-> <<"P", "r", "e", "f", "a", "c", "e">>]
Interlude ==
    [kind |-> "unknown", chapter_number |-> None, heading_text |-> <<"I", "n", "t", "e", "r", "l", "u", "d", "e">>]
Headings == {ChapterOne, ChapterTwo, PartOne, Preface, Interlude}

\* the boundaries of a document of n pages whose page p has the heading h[p]: one
\* boundary for a page at most, in the order of the pages
RECURSIVE BoundaryList(_, _, _)
BoundaryList(h, p, n) ==
    IF p >= n THEN <<>>
    ELSE (IF p \in DOMAIN h
          THEN <<[page |-> p, kind |-> h[p].kind,
                  chapter_number |-> h[p].chapter_number,
                  heading_text |-> h[p].heading_text]>>
          ELSE <<>>) \o BoundaryList(h, p + 1, n)

\* every list of boundaries of a document of n pages
BoundaryLists(n) ==
    UNION {{BoundaryList(h, 0, n) : h \in [ps -> Headings]} : ps \in SUBSET (0..(n - 1))}

\* the entries that _parse_toc_text reads from the printed table of contents
TocEntries ==
    {[kind |-> "chapter", chapter_number |-> Some(1), toc_page |-> Some(1),
      title |-> <<"O", "r", "i", "g", "i", "n", "s">>],
     [kind |-> "chapter", chapter_number |-> Some(2), toc_page |-> Some(2),
      title |-> <<"E", "m", "p", "i", "r", "e">>],
     [kind |-> "chapter", chapter_number |-> Some(2), toc_page |-> Some(7),
      title |-> <<"E", "m", "p", "i", "r", "e">>],
     [kind |-> "chapter", chapter_number |-> None, toc_page |-> Some(3),
      title |-> <<"I", "n", "t", "e", "r", "l", "u", "d", "e">>],
     [kind |-> "chapter", chapter_number |-> None, toc_page |-> None,
      title |-> <<"T", "h", "e", " ", "I", "n", "t", "e", "r", "l", "u", "d", "e", "s">>],
     [kind |-> "front_matter", chapter_number |-> None, toc_page |-> Some(1),
      title |-> <<"P", "r", "e", "f", "a", "c", "e">>],
     [kind |-> "part", chapter_number |-> Some(1), toc_page |-> None,
      title |-> <<"P", "a", "r", "t", " ", "O", "n", "e">>]}

\* the entries of the outline, doc.get_toc()
OutlineTitles ==
    {<<"C", "h", "a", "p", "t", "e", "r", " ", "1">>, <<"c", "h", "a", "p", "t", "e", "r", " ", " ", "t", "w", "o">>, <<"P", "a", "r", "t", " ", "I", "I">>, <<"N", "o", "t", "e", "s">>, <<"P", "r", "e", "f", "a", "c", "e", ":", " ", "1">>,
     <<"O", "r", "i", "g", "i", "n", "s">>}
\* lists of entries whose pages vary, and lists whose titles or levels vary
PagedOutlines ==
    {[i \in 1..MaxEntries |-> [level |-> 1, title |-> <<"C", "h", "a", "p", "t", "e", "r", " ", "1">>, page |-> ps[i]]] :
        ps \in [1..MaxEntries -> 0..(MaxPages + 1)]}
TitledOutlines ==
    {[i \in 1..MaxEntries |-> [level |-> 1, title |-> ts[i], page |-> i]] :
        ts \in [1..MaxEntries -> OutlineTitles]}
    \cup {[i \in 1..(MaxEntries + 1) |->
              [level |-> ls[i], title |-> <<"O", "r", "i", "g", "i", "n", "s">>, page |-> Min(i, MaxPages)]] :
             ls \in [1..(MaxEntries + 1) -> {1, 2}]}

\* a PDF
Pdf(pages, toc, outline, boundaries, encrypted) ==
    [pages |-> pages, toc |-> toc, outline |-> outline, boundaries |-> boundaries,
     encrypted |-> encrypted]

\* the PDFs that are analyzed: with headings only, with an outline, with a printed
\* table of contents, the long ones, an encrypted one and one without pages
HeadingPdfs ==
    UNION {{Pdf(ps, <<>>, <<>>, bs, FALSE) : bs \in BoundaryLists(Len(ps))} :
              ps \in ShortPages}
OutlineBoundaries == {<<>>, BoundaryList((1 :> ChapterTwo), 0, MaxPages)}
OutlinePdfs ==
    {Pdf(ps, <<>>, o, bs, FALSE) :
        ps \in [1..MaxPages -> PageWords], o \in PagedOutlines, bs \in OutlineBoundaries}
    \cup {Pdf([i \in 1..MaxPages |-> 120], <<>>, o, bs, FALSE) :
             o \in TitledOutlines, bs \in OutlineBoundaries}
TocBoundaries ==
    {<<>>,
     BoundaryList((0 :> ChapterOne) @@ (1 :> ChapterTwo), 0, MaxPages),
     BoundaryList((0 :> Preface) @@ (1 :> ChapterOne) @@ (2 :> ChapterTwo), 0, MaxPages),
     BoundaryList((0 :> ChapterTwo) @@ (2 :> Interlude), 0, MaxPages)}
TocPdfs ==
    {Pdf(ps, t, <<>>, bs, FALSE) :
        ps \in {<<120, 120, 120>>, <<120, 0, 120>>, <<0, 120, 40>>, <<40, 120, 0>>},
        t \in [1..MaxEntries -> TocEntries],
        bs \in TocBoundaries}
LongPdfs == {Pdf(ps, <<>>, <<>>, <<>>, FALSE) : ps \in LongPages}
BrokenPdfs ==
    {Pdf(<<>>, <<>>, <<>>, <<>>, FALSE), Pdf(<<120, 120>>, <<>>, <<>>, <<>>, TRUE)}
Pdfs == HeadingPdfs \cup OutlinePdfs \cup TocPdfs \cup LongPdfs \cup BrokenPdfs

\* the documents of the spine of an EPUB
SpineItems ==
    {[nav |-> FALSE, words |-> 120, toc_title |-> <<"C", "h", "a", "p", "t", "e", "r", " ", "1">>, title_tag |-> <<>>,
      heading |-> <<>>, body_number |-> <<>>],
     [nav |-> FALSE, words |-> 120, toc_title |-> <<>>, title_tag |-> <<" ", "P", "r", "e", "f", "a", "c", "e", " ">>,
      heading |-> <<>>, body_number |-> <<"2">>],
     [nav |-> FALSE, words |-> 120, toc_title |-> <<>>, title_tag |-> <<>>,
      heading |-> <<"N", "o", "t", "e", "s">>, body_number |-> <<>>],
     [nav |-> FALSE, words |-> 120, toc_title |-> <<>>, title_tag |-> <<>>,
      heading |-> <<>>, body_number |-> <<"I", "V">>],
     [nav |-> FALSE, words |-> 40, toc_title |-> <<"C", "h", "a", "p", "t", "e", "r", " ", "2">>, title_tag |-> <<>>,
      heading |-> <<>>, body_number |-> <<>>],
     [nav |-> TRUE, words |-> 120, toc_title |-> <<"C", "o", "n", "t", "e", "n", "t", "s">>, title_tag |-> <<>>,
      heading |-> <<>>, body_number |-> <<>>]}
Spines ==
    UNION {[1..n -> SpineItems] : n \in 0..MaxItems}
    \cup {[i \in 1..n |-> CHOOSE it \in SpineItems :
                              it.words = 120 /\ it.heading = <<>> /\ it.toc_title = <<>>
                              /\ it.title_tag = <<>>] :
             n \in (MAX_CHAPTERS - 1)..LongList}

\* the segments of a manual assignment
Segments ==
    {[name |-> nm, start_page |-> s, end_page |-> e] :
        nm \in {<<"I", "n", "t", "r", "o">>, <<" ">>},
        s \in {None, Some(0), Some(1), Some(2)},
        e \in {Some(1), Some(MaxPages + 1)}}
SegmentLists ==
    UNION {[1..n -> Segments] : n \in 0..MaxManual}
    \cup {[i \in 1..n |-> [name |-> <<"I", "n", "t", "r", "o">>, start_page |-> Some(1),
                           end_page |-> Some(1)]] :
             n \in (MAX_CHAPTERS - 1)..LongList}
ManualPdfs == {Pdf(ps, <<>>, <<>>, <<>>, FALSE) : ps \in [1..2 -> PageWords \ {40}]}

\* an upload before its analysis
Upload(ext, doc, items, segments) ==
    [fn |-> "input", ext |-> ext, doc |-> doc, items |-> items, segments |-> segments,
     detected |-> NotDetected, chapters |-> <<>>]

InitChapters ==
    \/ \E doc \in Pdfs : InitState(NoRequests, Upload("pdf", doc, <<>>, <<>>))
    \/ \E items \in Spines :
           InitState(NoRequests,
                     Upload("epub", Pdf(<<>>, <<>>, <<>>, <<>>, FALSE), items, <<>>))
    \/ \E doc \in ManualPdfs, segments \in SegmentLists \ {<<>>}, ext \in {"pdf", "epub"} :
           InitState(NoRequests, Upload(ext, doc, <<>>, segments))

\* api_analyze of a PDF in auto mode: the chapters of extract_chapters_pdf, capped
AnalyzePdf ==
    /\ an.fn = "input" /\ an.ext = "pdf" /\ an.segments = <<>>
    /\ LET r == extract_chapters_pdf(an.doc) IN
       an' = [an EXCEPT !.fn = "analyze", !.detected = r,
                        !.chapters = cap_chapters(r.chapters)]
    /\ UNCHANGED <<lim, req, rd, jobs, thr, files, uploads, book, sems, cancelReq,
                   cancelBook, convCh, convAll, hist>>

\* api_analyze of an EPUB in auto mode: the chapters of extract_chapters_epub, capped
AnalyzeEpub ==
    /\ an.fn = "input" /\ an.ext = "epub" /\ an.segments = <<>>
    /\ LET r == extract_chapters_epub(an.items) IN
       an' = [an EXCEPT !.fn = "analyze", !.detected = r,
                        !.chapters = cap_chapters(r.chapters)]
    /\ UNCHANGED <<lim, req, rd, jobs, thr, files, uploads, book, sems, cancelReq,
                   cancelBook, convCh, convAll, hist>>

\* api_analyze with manual segments: one chapter for every segment, capped
AnalyzeManual ==
    /\ an.fn = "input" /\ an.segments # <<>>
    /\ LET r == manual_chapters(an.ext, an.doc, an.segments) IN
       an' = [an EXCEPT !.fn = "analyze", !.detected = r,
                        !.chapters = cap_chapters(r.chapters)]
    /\ UNCHANGED <<lim, req, rd, jobs, thr, files, uploads, book, sems, cancelReq,
                   cancelBook, convCh, convAll, hist>>

NextChapters == AnalyzePdf \/ AnalyzeEpub \/ AnalyzeManual

SpecChapters == InitChapters /\ [][NextChapters]_vars

(* ------------------------------------------------------------------ *)
(* Cancellation of a queued chapter: convert_all on a book with more   *)
(* chapters than the semaphore has permits, and one api_cancel request *)
(* for one of the jobs; no failures                                    *)
(* ------------------------------------------------------------------ *)
InitThrottle ==
    InitWith(OwnerOnly(
             [jobs |-> SemChapters, chapters |-> SemChapters, segs |-> 1,
              chunks |-> 1, alls |-> MaxConvertAll, cbooks |-> 0, cchs |-> 0,
              inflight |-> MaxInflight]))

\* the only cancel request of the scenario is made for job j
CancelOne(j) ==
    /\ \A k \in Jobs : jobs[k].status # "cancelled"
    /\ CancelCheck(j)

\* one step of a chapter worker that does not fail
QueuedWorker(j) ==
    \/ ConversionSteps(j) \/ InterruptSteps(j) \/ ThrottledSteps(j) \/ PollSteps(j)

NextThrottle ==
    \/ ApiAnalyze
    \/ ConvertAllBegin
    \/ ConvertAllSpawn
    \/ \E j \in Jobs : CancelOne(j)
    \/ \E j \in Jobs : CancelWrite(j)
    \/ \E j \in Jobs : QueuedWorker(j)

SpecThrottle == InitThrottle /\ [][NextThrottle]_vars

(* ------------------------------------------------------------------ *)
(* The permits of the semaphore: convert_all on a book with more       *)
(* chapters than the semaphore has permits, workers that can fail, and *)
(* one api_cancel request for the job of the last chapter              *)
(* ------------------------------------------------------------------ *)
\* one step of a chapter worker whose text is not empty and whose synthesis can fail
FailingWorker(j) == QueuedWorker(j) \/ StreamFail(j) \/ Error(j) \/ ChapterError(j)

NextPermits ==
    \/ ApiAnalyze
    \/ ConvertAllBegin
    \/ ConvertAllSpawn
    \/ SemChapters \in Jobs /\ CancelOne(SemChapters)
    \/ \E j \in Jobs : CancelWrite(j)
    \/ \E j \in Jobs : FailingWorker(j)

SpecPermits == InitThrottle /\ [][NextPermits]_vars

(* ------------------------------------------------------------------ *)
(* Termination of jobs: single-file and chapter conversions beside     *)
(* api_cancel requests and the idle cleanup, under fair scheduling     *)
(* ------------------------------------------------------------------ *)
InitFinish ==
    InitWith(OwnerOnly(
             [jobs |-> MaxJobs, chapters |-> NumChapters, segs |-> 1,
              chunks |-> 1, alls |-> 0, cbooks |-> 0, cchs |-> MaxJobs,
              inflight |-> MaxInflight]))

\* one step of a worker whose job can be cancelled and whose synthesis can fail
AnyWorker(j) ==
    \/ FileSteps(j) \/ ConversionSteps(j) \/ InterruptSteps(j) \/ FailureSteps(j)

NextFinish ==
    \/ ApiAnalyze
    \/ ApiConvert
    \/ CleanupOldFiles
    \/ \E c \in Chapters : ConvertChapterCheck(c)
    \/ \E c \in Chapters : ConvertChapterCreate(c)
    \/ \E j \in Jobs : CancelCheck(j)
    \/ \E j \in Jobs : CancelWrite(j)
    \/ \E j \in Jobs : AnyWorker(j)

\* every started thread that can take a step eventually takes one, the streams
\* of the synthesis end, and a request handler past its check runs to its end
FairFinish ==
    /\ \A j \in 1..MaxJobs : WF_vars(j \in Jobs /\ AnyWorker(j))
    /\ WF_vars(\E c \in Chapters : ConvertChapterCreate(c))
    /\ WF_vars(\E j \in Jobs : CancelWrite(j))

SpecFinish == InitFinish /\ [][NextFinish]_vars /\ FairFinish

(* ------------------------------------------------------------------ *)
(* The two registry locks: the critical sections of a chapter worker,  *)
(* of api_cancel, of api_cancel_book and of api_convert with its       *)
(* cleanup, run by four threads                                        *)
(* ------------------------------------------------------------------ *)
Locks == {"jobs_lock", "books_lock"}

\* "with lock: ..." acquires the lock, runs its block and releases the lock
With(lock) ==
    <<[op |-> "acquire", lock |-> lock], [op |-> "release", lock |-> lock]>>

\* a "with" statement whose block holds a "with" statement for another lock
WithNested(outer, inner) ==
    <<[op |-> "acquire", lock |-> outer]>> \o With(inner)
        \o <<[op |-> "release", lock |-> outer]>>

\* p repeated n times
RECURSIVE Times(_, _)
Times(p, n) == IF n = 0 THEN <<>> ELSE p \o Times(p, n - 1)

\* is_job_cancelled
is_job_cancelled_locks == With("jobs_lock")

\* update_progress that goes on: the cancellation check, then the write
update_progress_locks == is_job_cancelled_locks \o With("jobs_lock")

\* run_chapter_conversion: the chapter has no text; or the first update_progress
\* raises InterruptedError; or three progress updates, the final check and the
\* completing block; each ends with the write of the chapter status
run_chapter_conversion_locks ==
    {With("jobs_lock") \o With("books_lock"),
     is_job_cancelled_locks \o With("jobs_lock") \o With("books_lock"),
     Times(update_progress_locks, 3) \o is_job_cancelled_locks
         \o With("jobs_lock") \o With("books_lock")}

\* run_chapter_conversion_throttled: one check of the polling loop or the check
\* after the acquisition, followed by the early return or the conversion
run_chapter_conversion_throttled_locks ==
    {is_job_cancelled_locks \o With("jobs_lock") \o With("books_lock")}
        \cup {is_job_cancelled_locks \o p : p \in run_chapter_conversion_locks}

\* api_cancel: the lookup of the job, and the write when the job is processing
api_cancel_locks == {With("jobs_lock"), With("jobs_lock") \o With("jobs_lock")}

\* the loop of api_cancel_book over n chapters that have a job, with a "with"
\* for the second lock inside the block of the first
nested_cancel_book_locks(n) ==
    With("books_lock") \o Times(WithNested("jobs_lock", "books_lock"), n)

\* api_cancel_book: the lookup of the book, then for each of the n chapters that
\* have a job the block on the job and the block on the chapter
api_cancel_book_locks(n) ==
    With("books_lock") \o Times(With("jobs_lock") \o With("books_lock"), n)

\* api_convert: cleanup_old_files deletes the stale books, then the job is stored
api_convert_locks == With("books_lock") \o With("jobs_lock")

LockThreads == 1..4

\* the critical sections of the four threads, one path for each
LockPrograms ==
    {<<w, c, api_cancel_book_locks(n), api_convert_locks>> :
        w \in run_chapter_conversion_throttled_locks, c \in api_cancel_locks,
        n \in 1..MaxCancelled}

InitLocks ==
    \E p \in LockPrograms :
        InitState(NoRequests,
                  [fn |-> "locks", prog |-> p, pos |-> [t \in LockThreads |-> 1],
                   owner |-> [l \in Locks |-> 0]])

\* thread t has statements left
Running(t) == an.pos[t] <= Len(an.prog[t])

\* the next statement of thread t
NextOp(t) == an.prog[t][an.pos[t]]

\* Lock.acquire(): blocks until the lock is free (threading.Lock is not reentrant)
LockAcquire(t) ==
    /\ Running(t)
    /\ NextOp(t).op = "acquire"
    /\ an.owner[NextOp(t).lock] = 0
    /\ an' = [an EXCEPT !.owner[NextOp(t).lock] = t, !.pos[t] = @ + 1]
    /\ UNCHANGED <<lim, req, rd, jobs, thr, files, uploads, book, sems, cancelReq,
                   cancelBook, convCh, convAll, hist>>

\* Lock.release() at the end of the "with" block
LockRelease(t) ==
    /\ Running(t)
    /\ NextOp(t).op = "release"
    /\ an' = [an EXCEPT !.owner[NextOp(t).lock] = 0, !.pos[t] = @ + 1]
    /\ UNCHANGED <<lim, req, rd, jobs, thr, files, uploads, book, sems, cancelReq,
                   cancelBook, convCh, convAll, hist>>

NextLocks ==
    \/ \E t \in LockThreads : LockAcquire(t)
    \/ \E t \in LockThreads : LockRelease(t)

SpecLocks == InitLocks /\ [][NextLocks]_vars

(* ------------------------------------------------------------------ *)
(* convert_to_speech._convert as a function of the text and of the     *)
(* audio chunks that the streams of its segments yield                 *)
(* ------------------------------------------------------------------ *)
TTS_PAUSE == <<"T", "T", "S", "P", "A", "U", "S", "E", "B", "R", "E", "A", "K">>

HexDigits == <<"0", "1", "2", "3", "4", "5", "6", "7", "8", "9", "a", "b", "c", "d", "e", "f">>

\* bytes.fromhex(s)
fromhex(s) ==
    [i \in 1..(Len(s) \div 2) |->
        16 * (IndexIn(s[2 * i - 1], HexDigits) - 1) + (IndexIn(s[2 * i], HexDigits) - 1)]

\* b * n of a bytes object
RECURSIVE Repeat(_, _)
Repeat(b, n) == IF n = 0 THEN <<>> ELSE b \o Repeat(b, n - 1)

\* _SILENT_FRAME = bytes.fromhex("fff364c4") + b"\x00" * 188
_SILENT_FRAME == fromhex(<<"f", "f", "f", "3", "6", "4", "c", "4">>) \o [i \in 1..188 |-> 0]

\* SILENCE = _SILENT_FRAME * 63
SILENCE == Repeat(_SILENT_FRAME, 63)

\* text.split(sep), from position i on with the characters cur of the current
\* piece already read
RECURSIVE Split(_, _, _, _)
Split(s, sep, i, cur) ==
    IF i > Len(s) THEN <<cur>>
    ELSE IF i + Len(sep) - 1 <= Len(s) /\ SubSeq(s, i, i + Len(sep) - 1) = sep
    THEN <<cur>> \o Split(s, sep, i + Len(sep), <<>>)
    ELSE Split(s, sep, i + 1, Append(cur, s[i]))

\* segments = [s.strip() for s in text.split(TTS_PAUSE) if s.strip()]
speech_segments(text) ==
    LET pieces   == Split(text, TTS_PAUSE, 1, <<>>)
        stripped == [i \in 1..Len(pieces) |-> strip(pieces[i])]
    IN SelectSeq(stripped, LAMBDA s : s # <<>>)

\* a test that lets the silence follow every segment
silence_always(idx, n) == TRUE

\* "if idx < len(segments) - 1"
silence_after(idx, n) == idx < n - 1

\* the data of the k-th audio chunk that the stream of segment number i yields
ChunkData(i, k) == <<i, k>>

\* the pieces of text around the pause markers: empty, blank, a word, a word
\* between blanks
Pieces == {<<>>, <<" ">>, <<"a">>, <<" ", "b", "\n">>}

\* texts of up to MaxPieces pieces with TTS_PAUSE between them
RECURSIVE JoinPieces(_)
JoinPieces(ps) ==
    IF Len(ps) = 1 THEN ps[1] ELSE ps[1] \o TTS_PAUSE \o JoinPieces(Tail(ps))

SpeechTexts ==
    {JoinPieces(ps) : ps \in UNION {[1..n -> Pieces] : n \in 1..MaxPieces}}

InitSpeech ==
    \E text \in SpeechTexts, chunks \in [1..MaxPieces -> 1..MaxStream] :
        InitState(NoRequests,
                  [fn |-> "text", text |-> text, chunks |-> chunks,
                   segments |-> <<>>, idx |-> 0, k |-> 0, f |-> <<>>])

\* _convert up to 'with open(output_path, "wb") as f': the text is split and the
\* file is created empty
SpeechOpen ==
    /\ an.fn = "text"
    /\ an' = [an EXCEPT !.fn = "open", !.segments = speech_segments(an.text)]
    /\ UNCHANGED <<lim, req, rd, jobs, thr, files, uploads, book, sems, cancelReq,
                   cancelBook, convCh, convAll, hist>>

\* "f.write(chunk['data'])" of the next audio chunk of segment idx
SpeechChunk ==
    /\ an.fn = "open"
    /\ an.idx < Len(an.segments)
    /\ an.k < an.chunks[an.idx + 1]
    /\ an' = [an EXCEPT !.k = @ + 1, !.f = @ \o ChunkData(an.idx + 1, an.k + 1)]
    /\ UNCHANGED <<lim, req, rd, jobs, thr, files, uploads, book, sems, cancelReq,
                   cancelBook, convCh, convAll, hist>>

\* the stream of segment idx has ended:
\* "if idx < len(segments) - 1: f.write(SILENCE)", then the next segment
SpeechSegmentEnd ==
    /\ an.fn = "open"
    /\ an.idx < Len(an.segments)
    /\ an.k = an.chunks[an.idx + 1]
    /\ an' = [an EXCEPT !.idx = @ + 1, !.k = 0,
                        !.f = IF silence_after(an.idx, Len(an.segments))
                              THEN @ \o SILENCE ELSE @]
    /\ UNCHANGED <<lim, req, rd, jobs, thr, files, uploads, book, sems, cancelReq,
                   cancelBook, convCh, convAll, hist>>

\* the loop over the segments is over: the file is closed
SpeechClose ==
    /\ an.fn = "open"
    /\ an.idx = Len(an.segments)
    /\ an' = [an EXCEPT !.fn = "closed"]
    /\ UNCHANGED <<lim, req, rd, jobs, thr, files, uploads, book, sems, cancelReq,
                   cancelBook, convCh, convAll, hist>>

NextSpeech == SpeechOpen \/ SpeechChunk \/ SpeechSegmentEnd \/ SpeechClose

SpecSpeech == InitSpeech /\ [][NextSpeech]_vars

(* ------------------------------------------------------------------ *)
(* The passes of extract_chapters_pdf on documents that have a printed *)
(* table of contents, an outline and headings at the same time         *)
(* ------------------------------------------------------------------ *)
\* printed tables of contents of two and of three chapter entries, and none
MixedTocs ==
    LET entries == {e \in TocEntries : e.kind = "chapter" /\ e.toc_page # None}
    IN  {<<>>} \cup [1..2 -> entries] \cup [1..MaxEntries -> entries]

\* no outline, an outline whose entries begin on three pages, and one whose
\* entries all point before the first page
MixedOutlines ==
    {<<>>}
    \cup {o \in PagedOutlines :
             \/ \A i \in 1..MaxEntries : o[i].page = i
             \/ \A i \in 1..MaxEntries : o[i].page = 0}

MixedPdfs ==
    {Pdf(ps, t, o, bs, FALSE) :
        ps \in {<<120, 120, 120>>, <<120, 0, 120>>},
        t \in MixedTocs, o \in MixedOutlines, bs \in TocBoundaries}

InitStages ==
    \E doc \in MixedPdfs \cup BrokenPdfs :
        InitState(NoRequests, Upload("pdf", doc, <<>>, <<>>))

NextStages == AnalyzePdf

SpecStages == InitStages /\ [][NextStages]_vars

(* ------------------------------------------------------------------ *)
(* The page-chunk fallback on documents of 1 to MaxChunkPages pages    *)
(* ------------------------------------------------------------------ *)
ChunkPdfs ==
    {Pdf([i \in 1..n |-> w], <<>>, <<>>, <<>>, FALSE) :
        n \in 1..MaxChunkPages, w \in PageWords}

InitChunks ==
    \E doc \in ChunkPdfs : InitState(NoRequests, Upload("pdf", doc, <<>>, <<>>))

\* _extract_via_page_chunks is applied to the document
ChunkPages ==
    /\ an.fn = "input"
    /\ an' = [an EXCEPT !.fn = "_extract_via_page_chunks",
                        !.chapters = _extract_via_page_chunks(an.doc)]
    /\ UNCHANGED <<lim, req, rd, jobs, thr, files, uploads, book, sems, cancelReq,
                   cancelBook, convCh, convAll, hist>>

NextChunks == ChunkPages

SpecChunks == InitChunks /\ [][NextChunks]_vars

(* ------------------------------------------------------------------ *)
(* _find_toc_pages on documents whose pages are given by their text    *)
(* ------------------------------------------------------------------ *)
Reverse(s) == [i \in 1..Len(s) |-> s[Len(s) + 1 - i]]

\* _TOC_ANCHOR.match(line): ^\s*(TABLE\s+OF\s+)?CONTENTS\s*$, ignoring case
_TOC_ANCHOR(line) ==
    upper(SquashSpaces(strip(line))) \in {<<"C", "O", "N", "T", "E", "N", "T", "S">>, <<"T", "A", "B", "L", "E", " ", "O", "F", " ", "C", "O", "N", "T", "E", "N", "T", "S">>}

\* _PAGE_NUM_TAIL.search(cl): [\s.]+(\d{1,4})\s*$ on a stripped line
_PAGE_NUM_TAIL(cl) ==
    LET d == Len(Run(Reverse(cl), DigitChars))
    IN  d \in 1..4 /\ Len(cl) > d /\ cl[Len(cl) - d] \in {" ", "\t", "."}

\* re.match(r"^\d{1,3}\s*[.):]", cl)
numbered_entry(cl) ==
    LET r == Len(Run(cl, DigitChars))
        rest == lstrip(SubSeq(cl, r + 1, Len(cl)))
    IN  r \in 1..3 /\ rest # <<>> /\ Head(rest) \in {".", ")", ":"}

\* the words of re.match(r"^(chapter|part|...|notes)\b", cl, re.IGNORECASE)
TOC_KEYWORDS ==
    {<<"c", "h", "a", "p", "t", "e", "r">>, <<"p", "a", "r", "t">>, <<"a", "p", "p", "e", "n", "d", "i", "x">>, <<"i", "n", "t", "r", "o", "d", "u", "c", "t", "i", "o", "n">>, <<"p", "r", "e", "f", "a", "c", "e">>,
     <<"e", "p", "i", "l", "o", "g", "u", "e">>, <<"c", "o", "n", "c", "l", "u", "s", "i", "o", "n">>, <<"b", "i", "b", "l", "i", "o", "g", "r", "a", "p", "h", "y">>, <<"a", "c", "k", "n", "o", "w", "l", "e", "d", "g", "m", "e", "n", "t">>,
     <<"i", "n", "d", "e", "x">>, <<"g", "l", "o", "s", "s", "a", "r", "y">>, <<"n", "o", "t", "e", "s">>}

keyword_entry(cl) ==
    \E w \in TOC_KEYWORDS :
        /\ StartsWith(lower(cl), w)
        /\ Len(cl) = Len(w) \/ cl[Len(w) + 1] \notin WordChars

\* one of the four tests that add 1 to toc_signals
toc_signal(cl) ==
    \/ _PAGE_NUM_TAIL(cl)
    \/ isdigit(cl) /\ 1 <= int(cl) /\ int(cl) <= 999
    \/ numbered_entry(cl)
    \/ keyword_entry(cl)

\* raw.strip().split("\n")
text_lines(raw) == Split(strip(raw), <<"\n">>, 1, <<>>)

\* "for line in lines[:5]: if _TOC_ANCHOR.match(line.strip())"
anchor_page(raw) ==
    LET lines == text_lines(raw)
    IN  \E i \in 1..Min(5, Len(lines)) : _TOC_ANCHOR(strip(lines[i]))

\* clines = [cl.strip() for cl in text.strip().split("\n") if cl.strip()]
content_lines(raw) ==
    LET lines == text_lines(raw)
    IN  SelectSeq([i \in 1..Len(lines) |-> strip(lines[i])], LAMBDA cl : cl # <<>>)

\* the candidate page has lines and toc_signals / len(clines) >= 0.25
continuation_page(raw) ==
    LET clines == content_lines(raw)
    IN  /\ clines # <<>>
        /\ 4 * Len(SelectSeq(clines, toc_signal)) >= Len(clines)

\* the default of the parameter max_scan
max_scan == 30

\* a range of candidates that ends with the document only
unlimited_candidates(pg, n) == n

\* the end of range(pg + 1, min(pg + 8, len(doc)))
candidate_limit(pg, n) == Min(pg + 8, n)

\* the loop over the candidates: the first page, counted from 0, that is not a
\* continuation, or the end of the range
RECURSIVE ContinuationEnd(_, _, _)
ContinuationEnd(pages, candidate, limit) ==
    IF candidate >= limit \/ ~continuation_page(pages[candidate + 1]) THEN candidate
    ELSE ContinuationEnd(pages, candidate + 1, limit)

NoRange == [ok |-> FALSE, start |-> 0, end |-> 0]

\* the loop "for pg in range(min(max_scan, len(doc)))" from page pg on
RECURSIVE FindToc(_, _)
FindToc(pages, pg) ==
    IF pg >= Min(max_scan, Len(pages)) THEN NoRange
    ELSE IF anchor_page(pages[pg + 1])
    THEN [ok |-> TRUE, start |-> pg,
          end |-> ContinuationEnd(pages, pg + 1, candidate_limit(pg, Len(pages)))]
    ELSE FindToc(pages, pg + 1)

\* _find_toc_pages(doc)
_find_toc_pages(pages) == FindToc(pages, 0)

\* the text of a page from its lines
RECURSIVE PageText(_)
PageText(lines) ==
    IF lines = <<>> THEN <<>>
    ELSE IF Len(lines) = 1 THEN lines[1]
    ELSE lines[1] \o <<"\n">> \o PageText(Tail(lines))

\* pages with the anchor: in the first line, in the fifth line after blank lines
\* at the top, and two pages without it: the word in the sixth line, and in a
\* sentence
ContentsFirst == PageText(<<<<"C", "o", "n", "t", "e", "n", "t", "s">>, <<"C", "h", "a", "p", "t", "e", "r", " ", "1", " ", "O", "r", "i", "g", "i", "n", "s", " ", "3">>>>)
ContentsFifth ==
    PageText(<<<<" ", " ">>, <<>>, <<"A", " ", "H", "i", "s", "t", "o", "r", "y">>, <<>>, <<" ">>, <<>>,
               <<" ", "T", "a", "b", "l", "e", " ", " ", "o", "f", " ", "C", "O", "N", "T", "E", "N", "T", "S", " ">>, <<"1", ".", " ", "O", "r", "i", "g", "i", "n", "s">>>>)
ContentsSixth ==
    PageText(<<<<"A">>, <<"B">>, <<"C">>, <<"D">>, <<"E">>, <<"c", "o", "n", "t", "e", "n", "t", "s">>, <<"1", "2">>, <<"1", "3">>>>)
ContentsInline == PageText(<<<<"T", "h", "e", " ", "c", "o", "n", "t", "e", "n", "t", "s", " ", "o", "f", " ", "t", "h", "i", "s", " ", "b", "o", "o", "k">>, <<"a", "r", "e", " ", "m", "a", "n", "y">>>>)

\* pages after the anchor: one signal in four lines, one in five, several
\* signals, lines that come close to a signal, and a page of blanks
QuarterPage ==
    PageText(<<<<"7", ".", " ", "E", "m", "p", "i", "r", "e">>, <<>>, <<"I", "t", " ", "w", "a", "s", " ", "n", "i", "g", "h", "t">>, <<"a", "n", "d", " ", "d", "a", "y">>, <<"a", "g", "a", "i", "n">>>>)
FifthPage ==
    PageText(<<<<"N", "o", "t", "e", "s">>, <<"I", "t", " ", "w", "a", "s", " ", "n", "i", "g", "h", "t">>, <<"a", "n", "d", " ", "d", "a", "y">>, <<"a", "g", "a", "i", "n">>, <<"a", "n", "d", " ", "a", "g", "a", "i", "n">>>>)
SignalPage ==
    PageText(<<<<"1", "2">>, <<"A", "p", "p", "e", "n", "d", "i", "x", " ", "A">>, <<"E", "m", "p", "i", "r", "e", " ", ".", ".", ".", " ", "4", "5">>, <<"I", "t", " ", "w", "a", "s", " ", "n", "i", "g", "h", "t">>>>)
NearMissPage ==
    PageText(<<<<"1", "2", "3", "4", "5">>, <<"0">>, <<"1", "0", "0", "0">>, <<"P", "a", "r", "t", "s", " ", "o", "f", " ", "s", "p", "e", "e", "c", "h">>, <<"1", "2", "3", "4", ".", " ", "E", "m", "p", "i", "r", "e">>,
               <<"I", "n", " ", "1", "2", "3", "4", "5">>, <<"a", "1", "2">>>>)
BlankPage == PageText(<<<<" ">>, <<" ", " ">>>>)

TocPageTexts ==
    {ContentsFirst, ContentsFifth, ContentsSixth, ContentsInline, QuarterPage,
     FifthPage, SignalPage, NearMissPage, BlankPage}

\* documents of up to MaxTocDoc pages; long tables of contents; and documents
\* whose anchor page lies around the end of the scan
TocDocs ==
    UNION {[1..n -> TocPageTexts] : n \in 1..MaxTocDoc}
    \cup {<<ContentsFirst>> \o [i \in 1..k |-> SignalPage] \o tail :
             k \in 5..MaxContinuation, tail \in {<<>>, <<FifthPage>>}}
    \cup {[i \in 1..n |-> ContentsInline] \o <<ContentsFirst, QuarterPage>> :
             n \in (max_scan - 2)..(max_scan + 1)}

InitToc ==
    \E pages \in TocDocs :
        InitState(NoRequests, [fn |-> "input", pages |-> pages, result |-> NoRange])

\* _find_toc_pages is applied to the document
FindTocPages ==
    /\ an.fn = "input"
    /\ an' = [an EXCEPT !.fn = "_find_toc_pages", !.result = _find_toc_pages(an.pages)]
    /\ UNCHANGED <<lim, req, rd, jobs, thr, files, uploads, book, sems, cancelReq,
                   cancelBook, convCh, convAll, hist>>

NextToc == FindTocPages

SpecToc == InitToc /\ [][NextToc]_vars

(* ------------------------------------------------------------------ *)
(* Step 2 of _align_toc_to_boundaries on tables of contents and        *)
(* heading boundaries that include part headings                       *)
(* ------------------------------------------------------------------ *)
\* the candidates of Strategy 1: the boundaries not yet claimed that carry the
\* chapter number of the entry
number_candidates(entry, boundaries, used) ==
    SelectSeq(boundaries,
              LAMBDA b : b.chapter_number = entry.chapter_number /\ b.page \notin used)

\* the loop of Step 2 from the i-th entry on: for every entry that gets a
\* best_boundary, the entry, the boundary and whether Strategy 1 chose it
RECURSIVE Claimed(_, _, _, _, _)
Claimed(toc_entries, boundaries, offset, i, used) ==
    IF i > Len(toc_entries) THEN <<>>
    ELSE LET entry == toc_entries[i]
             best == best_boundary(entry, boundaries, offset, used)
         IN  IF entry.kind = "part" \/ best = <<>>
             THEN Claimed(toc_entries, boundaries, offset, i + 1, used)
             ELSE <<[entry |-> entry, boundary |-> best[1],
                     by_number |-> /\ entry.chapter_number # None
                                   /\ number_candidates(entry, boundaries, used) # <<>>]>>
                      \o Claimed(toc_entries, boundaries, offset, i + 1,
                                 used \cup {best[1].page})

\* tables of contents of one to MaxEntries entries
AlignTocs ==
    [1..1 -> TocEntries] \cup [1..2 -> TocEntries]
        \cup [1..MaxEntries -> {e \in TocEntries : e.chapter_number # None}]

AlignPdfs ==
    {Pdf([i \in 1..MaxPages |-> 120], t, <<>>, bs, FALSE) :
        t \in AlignTocs, bs \in BoundaryLists(MaxPages)}

InitAlign ==
    \E doc \in AlignPdfs :
        InitState(NoRequests,
                  [fn |-> "input", doc |-> doc, claimed |-> <<>>, chapters |-> <<>>])

\* _align_toc_to_boundaries is applied to the entries and the boundaries
AlignToc ==
    /\ an.fn = "input"
    /\ an' = [an EXCEPT
                 !.fn = "_align_toc_to_boundaries",
                 !.claimed = Claimed(an.doc.toc, an.doc.boundaries,
                                     page_offset(an.doc.toc, an.doc.boundaries), 1, {}),
                 !.chapters = _align_toc_to_boundaries(an.doc)]
    /\ UNCHANGED <<lim, req, rd, jobs, thr, files, uploads, book, sems, cancelReq,
                   cancelBook, convCh, convAll, hist>>

NextAlign == AlignToc

SpecAlign == InitAlign /\ [][NextAlign]_vars
(* ------------------------------------------------------------------ *)
(* Properties of the job status                                        *)
(* ------------------------------------------------------------------ *)
\* the worker of job j ends with this step
Terminates(j) == thr[j].pc # "done" /\ thr'[j].pc = "done"

\* bytes are appended to the output file of job j in this step
BytesWritten(j) ==
    /\ files[j].exists
    /\ files'[j].exists
    /\ Len(files'[j].data) > Len(files[j].data)

\* C1: the status of a job changes only from processing to completed, cancelled
\* or error, and a status of completed, cancelled or error never changes again
C1_StatusTransitions ==
    [][\A j \in Jobs :
          jobs'[j].status # jobs[j].status
              => jobs[j].status = "processing" /\ jobs'[j].status \in Terminal]_vars

\* C4: a job whose status is completed keeps the status completed, whatever
\* cancel or cancel-book request is interleaved with the completion
C4_CompletedStaysCompleted ==
    [][\A j \in Jobs :
          jobs[j].status = "completed" => jobs'[j].status = "completed"]_vars

\* C5: when the worker catches an exception other than the cancellation while the
\* status of its job is already cancelled, the status stays cancelled
C5_ErrorKeepsCancelled ==
    [][\A j \in Jobs :
          thr[j].pc = "err" /\ thr'[j].pc # "err" /\ jobs[j].status = "cancelled"
              => jobs'[j].status = "cancelled"]_vars

\* C5 witness: an exception handler has run on a job that was already cancelled
C5_Witness ==
    \E j \in Jobs :
        /\ hist[j].errc
        /\ thr[j].pc \in {"final", "ch_err"}
        /\ jobs[j].status = "cancelled"

\* C6: a worker that saw the cancellation in update_progress or in the final check
\* ends with no file at its output path, with its job cancelled and, for a chapter
\* job whose chapter still points to it, with the chapter record cancelled
C6_ObservedCancelCleansUp ==
    [][\A j \in Jobs :
          Terminates(j) /\ hist[j].obs
              => /\ ~files'[j].exists
                 /\ jobs'[j].status = "cancelled"
                 /\ (/\ thr[j].kind # "file"
                     /\ book'.state = "present"
                     /\ book'.chapters[thr[j].ch].job_id = j)
                        => book'.chapters[thr[j].ch].status = "cancelled"]_vars

\* C7: while the status of a job is cancelled no bytes are appended to its
\* output file
C7_NoWriteAfterCancel ==
    [][\A j \in Jobs : jobs[j].status = "cancelled" => ~BytesWritten(j)]_vars

\* C7 amended: once the worker has seen the cancellation in update_progress or in
\* the final check, no bytes are appended to the output file of its job
C7_NoWriteAfterObserved ==
    [][\A j \in Jobs : hist[j].obs => ~BytesWritten(j)]_vars

\* C7 witness: the worker has seen the cancellation after writing to the file,
\* and the partial file is still there
C7_Witness ==
    \E j \in Jobs :
        /\ hist[j].obs
        /\ thr[j].pc = "intr"
        /\ files[j].exists
        /\ Len(files[j].data) > 0

\* C8: after the status of a job is set to cancelled, its worker appends at most
\* one further audio chunk to the output file
C8_AtMostOneLateChunk ==
    \A j \in Jobs : hist[j].late <= 1

\* C8 witness: one audio chunk was appended after the cancellation, and the
\* progress callback that followed it has raised
C8_Witness ==
    \E j \in Jobs :
        /\ hist[j].late = 1
        /\ hist[j].obs
        /\ thr[j].pc = "intr"
        /\ AudioChunks(files[j].data) >= 2

\* C10: a worker ends with its upload deleted and, when its job is cancelled or
\* in error, with no file at the output path of the job
C10_TerminationCleansUp ==
    [][\A j \in Jobs :
          Terminates(j)
              => /\ ~uploads'[j]
                 /\ jobs'[j].status \in {"cancelled", "error"} => ~files'[j].exists]_vars

(* ------------------------------------------------------------------ *)
(* Properties of the chapter semaphore                                 *)
(* ------------------------------------------------------------------ *)
\* the workers between the acquire and the release of semaphore s
InSemaphore(s) ==
    {j \in Jobs : thr[j].kind = "throttled" /\ thr[j].sem = s /\ thr[j].holds}

\* the chapter worker of job j is inside convert_to_speech
InSynthesis(j) ==
    /\ thr[j].kind \in {"chapter", "throttled"}
    /\ thr[j].pc \in {"stream", "cbchk", "cbset", "p95chk", "p95set"}

\* C2: of the workers started by one convert_all request, at most 3 are between
\* the acquire and the release of the semaphore of the request
C2_AtMostThreePerRequest ==
    \A s \in 1..Len(sems) : Cardinality(InSemaphore(s)) <= 3

\* C2 witness: three workers of a request hold its semaphore, all of them inside
\* convert_to_speech, while a fourth polls for a permit
C2_Witness ==
    \E s \in 1..Len(sems) :
        /\ Cardinality(InSemaphore(s)) = 3
        /\ \A j \in InSemaphore(s) : InSynthesis(j)
        /\ \E j \in Jobs :
              thr[j].kind = "throttled" /\ thr[j].sem = s /\ thr[j].pc = "pollchk"

\* C3: over all requests, at most 3 chapter workers are inside convert_to_speech
\* at the same time
C3_AtMostThreeSystemWide ==
    Cardinality({j \in Jobs : InSynthesis(j)}) <= 3

(* ------------------------------------------------------------------ *)
(* Properties of the cancellation scenario                             *)
(* ------------------------------------------------------------------ *)
\* the cancel-book request has returned
BookCancelled == cancelBook.n > 0 /\ cancelBook.idx = 0

\* every chapter has reached its final state: its worker has ended, its reported
\* status is completed or cancelled, and a cancelled chapter has no output file
ChaptersSettled ==
    /\ book.state = "present"
    /\ \A c \in Chapters :
          /\ book.chapters[c].job_id # 0
          /\ thr[book.chapters[c].job_id].pc = "done"
          /\ chapter_status(c) \in {"completed", "cancelled"}
          /\ chapter_status(c) = "cancelled" => ~files[book.chapters[c].job_id].exists

C11_CompletedHasOutput ==
    \A j \in Jobs :
        jobs[j].status = "completed"
            => /\ jobs[j].output_file
               /\ files[j].exists
               /\ Len(files[j].data) > 0

\* cleanup_old_files removes the output file of job j in this step
CleanedUp(j) == thr[j].pc = "done" /\ files[j].exists /\ ~files'[j].exists

\* C18: when the cleanup of a conversion request finds the output file of a job
\* older than the cleanup age, the record of that job, which is older still, is
\* gone from the job registry after the cleanup
C18_CleanupRemovesOldJobs ==
    [][\A j \in Jobs : CleanedUp(j) => j \notin 1..Len(jobs')]_vars

(* ------------------------------------------------------------------ *)
(* Properties of the progress value                                    *)
(* ------------------------------------------------------------------ *)
\* C12: while the status of a job is processing, the progress values written to
\* it never decrease
C12_ProgressMonotoneWhileProcessing ==
    [][\A j \in Jobs :
          jobs[j].status = "processing" /\ jobs'[j].status = "processing"
              => jobs'[j].progress >= jobs[j].progress]_vars

\* C12 witness: a single-file job that is still processing has been through the
\* values 5, 20, the value after its first chunk of two, and has reached 95
C12_Witness ==
    \E j \in Jobs :
        /\ thr[j].kind = "file"
        /\ jobs[j].status = "processing"
        /\ thr[j].pc = "finchk"
        /\ AudioChunks(files[j].data) = 2
        /\ jobs[j].progress = 950

(* ------------------------------------------------------------------ *)
(* Properties of the progress stream and of the authorization          *)
(* ------------------------------------------------------------------ *)
\* C13: of two successive snapshots that a progress stream emits for a job, the
\* later one never carries a smaller progress than the earlier one, also when the
\* job becomes completed, cancelled or error between them
C13_ObservedProgressMonotone ==
    (rd.stream.prev.kind = "data" /\ rd.stream.last.kind = "data")
        => rd.stream.last.progress >= rd.stream.prev.progress

\* C14: the snapshot that the stream emits is the state that the job had at the
\* one instant of the lookup under jobs_lock (a copy), not a mix of fields from
\* different worker updates
C14_StreamEmitsCopy ==
    rd.stream.pc = "chk" => rd.stream.last = rd.stream.copy

\* C15: a step of a cancel-book request whose caller is not the owner of the
\* book (another user or a caller without a token) changes no job and no chapter
C15_OnlyOwnerCancelsBook ==
    [][(lim.client # BookOwner /\ cancelBook' # cancelBook)
           => (jobs' = jobs /\ book' = book)]_vars

\* C16: for a job with a user_id and a client who is not that user, the progress
\* stream emits nothing but one 'Unauthorized' error event and then ends, no
\* cancel request of the client gets past the check, and a download is refused
C16_StrangerIsRefused ==
    \A j \in Jobs :
        (job_user_id(j) # Anonymous /\ job_user_id(j) # lim.client)
            => /\ j \notin cancelReq
               /\ rd.dl.job = j => rd.dl.result = "refused"
               /\ rd.stream.job = j =>
                     /\ rd.stream.pc \in {"closed", "poll", "ended"}
                     /\ rd.stream.prev = NoEvent
                     /\ rd.stream.last.kind \in {"none", "unauthorized"}
                     /\ rd.stream.n <= 1
                     /\ rd.stream.pc = "ended"
                            <=> (rd.stream.n = 1 /\ rd.stream.last.kind = "unauthorized")

\* a stranger has opened a stream on a job that is processing, got the one
\* 'Unauthorized' event, and the download was refused
C16_Witness ==
    \E j \in Jobs :
        /\ job_user_id(j) # Anonymous /\ job_user_id(j) # lim.client
        /\ jobs[j].status = "processing"
        /\ rd.stream.job = j /\ rd.stream.pc = "ended"
        /\ rd.stream.n = 1 /\ rd.stream.last.kind = "unauthorized"
        /\ rd.dl.job = j /\ rd.dl.result = "refused"

\* C17: a stream that has ended after a snapshot ended after a snapshot with a
\* terminal status, and no snapshot follows a snapshot with a terminal status
C17_StreamEndsOnTerminalSnapshot ==
    /\ (rd.stream.pc = "ended" /\ rd.stream.last.kind = "data")
           => rd.stream.last.status \in Terminal
    /\ rd.stream.prev.kind = "data" => rd.stream.prev.status \notin Terminal

(* ------------------------------------------------------------------ *)
(* Properties of convert_all and convert_chapter                       *)
(* ------------------------------------------------------------------ *)
\* C19: while the word counts of the book's chapters sum to more than 500,000,
\* no convert_all request is under way, no semaphore and no throttled worker
\* exists (every job is that of a convert_chapter request); when they sum to
\* exactly 500,000, a convert_all request that nothing else holds back is accepted
C19_WordLimit ==
    book.state = "present" =>
        /\ total_words > MAX_TOTAL_WORDS
              => /\ convAll.idx = 0
                 /\ sems = <<>>
                 /\ \A j \in Jobs : thr[j].kind = "chapter"
        /\ (total_words = MAX_TOTAL_WORDS /\ CanStart /\ convAll.idx = 0
                /\ Len(sems) < lim.alls)
              => ENABLED ConvertAllBegin

\* a convert_all request on a book of exactly 500,000 words has started a worker
\* for each of its chapters
C19_Witness ==
    /\ book.state = "present"
    /\ total_words = MAX_TOTAL_WORDS
    /\ Len(sems) = 1
    /\ \A c \in 1..WordsChapters :
          /\ book.chapters[c].job_id # 0
          /\ thr[book.chapters[c].job_id].kind = "throttled"

\* C20: in no step does a chapter whose current job is processing or completed
\* get another job: its job_id stays what it was
C20_LiveChapterKeepsJob ==
    [][\A c \in Chapters :
          (book.state = "present" /\ HasLiveJob(c))
              => book'.chapters[c].job_id = book.chapters[c].job_id]_vars

(* ------------------------------------------------------------------ *)
(* Properties of the submissions                                       *)
(* ------------------------------------------------------------------ *)
\* the submission r is one that has to be refused: a single-file conversion of
\* a file with an unsupported extension, or by a caller who is not premium of a
\* file with more pages than the free-tier cap; a chapter conversion with an
\* index out of range; a chapter or book conversion by a caller who does not
\* own the book
OverPageCap(r) ==
    /\ r.op = "convert" /\ r.ext \in ALLOWED_EXTENSIONS
    /\ ~r.user.premium /\ r.counted /\ r.pages > FREE_PAGE_LIMIT

MustBeRefused(r) ==
    \/ r.op = "convert" /\ r.ext \notin ALLOWED_EXTENSIONS
    \/ OverPageCap(r)
    \/ r.op = "convert_chapter" /\ r.chapter \notin Chapters
    \/ r.op \in {"convert_chapter", "convert_all"} /\ r.user.id # BookOwner

\* C21: a step that answers a submission that has to be refused adds no job and
\* starts no worker, and after the refusal for the page count the upload that
\* the request saved is gone
C21_RefusedSubmissionAddsNothing ==
    [][(req' # req /\ MustBeRefused(req'))
          => /\ jobs' = jobs /\ thr' = thr
             /\ req'.result # "ok"
             /\ OverPageCap(req') => ~req'.upload]_vars

\* while a job is running, a caller who is not premium has submitted a file of
\* FREE_PAGE_LIMIT + 1 pages and was refused
C21_Witness ==
    /\ OverPageCap(req)
    /\ req.pages = FREE_PAGE_LIMIT + 1
    /\ req.result = "page_cap"
    /\ ~req.upload
    /\ Len(jobs) = 1 /\ jobs[1].status = "processing"

\* a caller without a valid token, or one who is not premium
NotPremium(u) == u.id = Anonymous \/ ~u.premium

\* C22: a step that answers an analyze, convert_chapter, convert_all or book
\* status request of a caller who is unauthenticated or not premium is a refusal
\* (401 or 403): it creates no book record and no job, starts no request and no
\* worker, and returns no chapter state
C22_PremiumOnly ==
    [][(req' # req /\ NotPremium(req'.user)
           /\ req'.op \in {"analyze", "convert_chapter", "convert_all", "book_status"})
          => /\ req'.result \in {"401", "403_premium"}
             /\ req'.seen = <<>>
             /\ book' = book /\ jobs' = jobs /\ thr' = thr
             /\ convCh' = convCh /\ convAll' = convAll /\ sems' = sems]_vars

\* the owner's chapter job is running and a caller who has a token but is not
\* premium has asked for the status of the book and was refused
C22_Witness ==
    /\ book.state = "present"
    /\ Len(jobs) = 1 /\ jobs[1].status = "processing"
    /\ req.op = "book_status"
    /\ req.user.id # Anonymous /\ ~req.user.premium
    /\ req.result = "403_premium"
    /\ req.seen = <<>>

\* C23: when an analyze request has been answered, with chapters or with an
\* error, the upload file that it saved is no longer on disk
C23_AnalyzeUploadDeleted ==
    req.op = "analyze" => ~req.upload

(* ------------------------------------------------------------------ *)
(* Properties of the chapter splitter                                  *)
(* ------------------------------------------------------------------ *)
\* C29: _parse_number returns n for the decimal string, the English word and the
\* Roman numeral of every n in 1..30, and _roman_to_int returns None for the
\* Roman numeral of every number from 200 on
C29_ParseNumber ==
    /\ (an.fn = "_parse_number" /\ an.n \in 1..THIRTY) => an.result = Some(an.n)
    /\ (an.fn = "_roman_to_int" /\ an.kind = "roman" /\ an.n >= ROMAN_LIMIT)
          => an.result = None

\* twenty-nine has been parsed from its hyphenated word
C29_Witness ==
    /\ an.fn = "_parse_number"
    /\ an.kind = "word"
    /\ an.s = <<"t", "w", "e", "n", "t", "y", "-", "n", "i", "n", "e">>
    /\ an.result = Some(29)

\* C28: the normalizer applied to its own result returns that result again
C28_CleanIdempotent ==
    an.fn = "clean_clean" => an.twice = an.once


\* the chapters of a list carry the indices 0 .. N-1 in the order of the list
Dense(chapters) == \A i \in 1..Len(chapters) : chapters[i].index = i - 1

\* C24: every chapter list that an analysis produces, the list of each detection
\* path and of the manual segments as well as the list that is left after the cap,
\* carries the indices 0 .. N-1 in list order, and the list that analyze returns has
\* at most 60 chapters
C24_DenseIndices ==
    an.fn = "analyze" =>
        /\ Dense(an.detected.chapters)
        /\ Dense(an.chapters)
        /\ Len(an.chapters) <= 60

\* 61 manual segments have been cut to 60 chapters with the indices 0 .. 59
C24_Witness ==
    /\ an.fn = "analyze"
    /\ an.detected.method = "manual"
    /\ Len(an.detected.chapters) = 61
    /\ Len(an.chapters) = 60
    /\ an.chapters[60].index = 59

\* C25: the chapters that a detection path returns for a PDF are in the order of
\* page_start, and page_start increases strictly from one chapter to the next
C25_PageStartIncreases ==
    (an.fn = "analyze" /\ an.ext = "pdf" /\ an.segments = <<>>) =>
        \A i, j \in 1..Len(an.detected.chapters) :
            i < j => an.detected.chapters[i].page_start
                         < an.detected.chapters[j].page_start

\* C26: every chapter that the analyzer detects, on whichever path, has 30 words or more, and 100 words
\* or more when the detection method is headings
C26_WordCount ==
    (an.fn = "analyze" /\ an.segments = <<>>) =>
        \A i \in 1..Len(an.detected.chapters) :
            /\ an.detected.chapters[i].word_count >= 30
            /\ an.detected.method = "headings"
                   => an.detected.chapters[i].word_count >= 100

\* C27: after the analysis the label of a chapter is "Ch. " followed by its number
\* when it is a chapter with a number, it is empty otherwise, and no chapter has
\* the section type unknown
C27_Labels ==
    an.fn = "analyze" =>
        \A i \in 1..Len(an.chapters) :
            LET ch == an.chapters[i] IN
            /\ ch.section_type # "unknown"
            /\ (ch.chapter_label # <<>>)
                   <=> (ch.section_type = "chapter" /\ ch.chapter_number # None)
            /\ ch.chapter_label # <<>>
                   => ch.chapter_label = <<"C", "h", ".", " ">> \o DecimalOf(ch.chapter_number.val)

\* an outline has given a numbered part without a label and a chapter labelled
\* "Ch. 1"
C27_Witness ==
    /\ an.fn = "analyze"
    /\ an.doc.outline # <<>>
    /\ \E i, j \in 1..Len(an.chapters) :
           /\ an.chapters[i].section_type = "part"
           /\ an.chapters[i].chapter_number = Some(2)
           /\ an.chapters[i].chapter_label = <<>>
           /\ an.chapters[j].section_type = "chapter"
           /\ an.chapters[j].chapter_label = <<"C", "h", ".", " ", "1">>


\* page_start increases strictly on the paths other than the outline
PageStartIncreasesOffOutline ==
    (an.fn = "analyze" /\ an.ext = "pdf" /\ an.segments = <<>> /\ an.doc.outline = <<>>) =>
        \A i, j \in 1..Len(an.detected.chapters) :
            i < j => an.detected.chapters[i].page_start
                         < an.detected.chapters[j].page_start
\* the word counts hold on the paths other than the page chunks
WordCountOffPageChunks ==
    (an.fn = "analyze" /\ an.segments = <<>> /\ an.detected.method # "auto_sections") =>
        \A i \in 1..Len(an.detected.chapters) :
            /\ an.detected.chapters[i].word_count >= 30
            /\ an.detected.method = "headings"
                   => an.detected.chapters[i].word_count >= 100

(* ------------------------------------------------------------------ *)
(* Properties of the queued chapter workers                            *)
(* ------------------------------------------------------------------ *)
\* the positions of run_chapter_conversion_throttled outside run_chapter_conversion:
\* waiting for the semaphore, the two checks, and the two writes of the early return
Queued == {"wait", "pollchk", "recheck", "t_msg", "t_ch"}

\* C30: a throttled worker whose job is cancelled while it has not yet passed the
\* re-check stays outside run_chapter_conversion and opens no output file: the
\* check in the polling loop and the re-check after the acquisition both lead to
\* the early return, which marks the chapter cancelled before the worker ends
C30_CancelledWhileQueued ==
    [][\A j \in Jobs :
          (/\ thr[j].kind = "throttled"
           /\ thr[j].pc \in Queued
           /\ jobs[j].status = "cancelled")
          => /\ jobs'[j].status = "cancelled"
             /\ files'[j] = files[j]
             /\ thr'[j].pc \in Queued \cup {"release", "done"}
             /\ thr[j].pc \in {"pollchk", "recheck"} /\ thr'[j].pc # thr[j].pc
                    => thr'[j].pc = "t_msg"
             /\ thr'[j].pc \in {"release", "done"}
                    => /\ thr[j].pc = "t_ch"
                       /\ book'.chapters[thr[j].ch].status = "cancelled"]_vars

\* a worker that saw the cancellation while polling, without a permit, has written
\* the job and is about to mark its chapter; no output file was opened for its job
C30_Witness ==
    \E j \in Jobs :
        /\ thr[j].kind = "throttled"
        /\ thr[j].pc = "t_ch"
        /\ ~thr[j].holds
        /\ jobs[j].status = "cancelled"
        /\ jobs[j].message = "Conversion cancelled."
        /\ ~files[j].exists

\* the cancellation was seen in the re-check, with the permit held
CancelSeenInRecheck ==
    \E j \in Jobs :
        /\ thr[j].kind = "throttled"
        /\ thr[j].pc = "t_ch"
        /\ thr[j].holds
        /\ jobs[j].status = "cancelled"
(* ------------------------------------------------------------------ *)
(* Properties of the permits of the chapter semaphore                  *)
(* ------------------------------------------------------------------ *)
\* the throttled workers started with semaphore s
WorkersOf(s) == {j \in Jobs : thr[j].kind = "throttled" /\ thr[j].sem = s}

\* C31: every permit of a semaphore is either free or held by exactly one worker
\* between its acquire and its release, so a worker that acquired releases once
\* on every exit path and a worker that returns while waiting releases nothing;
\* the permits never exceed 3 and are 3 again once every worker of the request
\* has finished
C31_PermitsConserved ==
    \A s \in 1..Len(sems) :
        /\ sems[s] + Cardinality(InSemaphore(s)) = MAX_CONCURRENT_CHAPTERS
        /\ sems[s] <= MAX_CONCURRENT_CHAPTERS
        /\ (\A j \in WorkersOf(s) : thr[j].pc = "done")
              => sems[s] = MAX_CONCURRENT_CHAPTERS

\* C31 witness: the four workers of a request have finished, one after an error,
\* one cancelled while it waited, the others after completion, and the
\* semaphore has its 3 permits
C31_Witness ==
    /\ Len(sems) = 1
    /\ Cardinality(WorkersOf(1)) = SemChapters
    /\ \A j \in WorkersOf(1) : thr[j].pc = "done"
    /\ \E j \in WorkersOf(1) : jobs[j].status = "error"
    /\ \E j \in WorkersOf(1) : jobs[j].status = "completed"
    /\ \E j \in WorkersOf(1) :
          jobs[j].status = "cancelled" /\ jobs[j].message = "Conversion cancelled."
    /\ sems[1] = MAX_CONCURRENT_CHAPTERS
(* ------------------------------------------------------------------ *)
(* Termination                                                         *)
(* ------------------------------------------------------------------ *)
\* C32: every created job eventually has the status completed, cancelled or
\* error, under fair scheduling, whatever the interleaving with cancel requests,
\* the idle cleanup and other conversion requests
C32_EveryJobTerminates ==
    \A j \in 1..MaxJobs :
        (j \in Jobs) ~> (j \in Jobs /\ jobs[j].status \in Terminal)

\* a job whose handler failed on the evicted book before it started the thread
Orphaned(j) ==
    /\ thr[j].kind = "none"
    /\ jobs[j].status = "processing"

\* a job of api_convert_chapter was created for a book that the cleanup evicted
\* between the check of the handler and its write of books[book_id]
OrphanedJob == \E j \in Jobs : Orphaned(j)

\* every job with a thread eventually has a terminal status
StartedJobsTerminate ==
    \A j \in 1..MaxJobs :
        (j \in Jobs /\ thr[j].kind # "none")
            ~> (j \in Jobs /\ jobs[j].status \in Terminal)
(* ------------------------------------------------------------------ *)
(* Chapter record and job record                                       *)
(* ------------------------------------------------------------------ *)
\* every worker started for chapter c has ended
WorkersEnded(c) ==
    \A j \in Jobs : thr[j].ch = c /\ thr[j].kind # "none" => thr[j].pc = "done"

\* C33: once the workers of a chapter have terminated and no request is in
\* flight, the status of the chapter record is the status of the job that the
\* chapter points to
C33_ChapterMatchesJob ==
    (book.state = "present" /\ Inflight = 0)
        => \A c \in Chapters :
              (book.chapters[c].job_id # 0 /\ WorkersEnded(c))
                  => book.chapters[c].status = jobs[book.chapters[c].job_id].status
\* the jobs created for chapter c whose status is processing
ProcessingJobs(c) ==
    {j \in Jobs : /\ thr[j].kind \in {"chapter", "throttled", "none"}
                  /\ thr[j].ch = c
                  /\ jobs[j].status = "processing"}

\* C34: a chapter has at most one job whose status is processing, also when
\* convert_chapter and convert_all requests overlap, and the chapter's job_id is
\* that job
C34_OneProcessingJob ==
    \A c \in Chapters :
        /\ Cardinality(ProcessingJobs(c)) <= 1
        /\ book.state = "present"
              => \A j \in ProcessingJobs(c) : book.chapters[c].job_id = j

(* ------------------------------------------------------------------ *)
(* Properties of the registry locks                                    *)
(* ------------------------------------------------------------------ *)
\* the locks that thread t holds
HeldBy(t) == {l \in Locks : an.owner[l] = t}

\* thread t waits for a lock that another thread holds
Waiting(t) ==
    /\ Running(t)
    /\ NextOp(t).op = "acquire"
    /\ an.owner[NextOp(t).lock] # 0

\* C35: no thread holds jobs_lock and books_lock at the same time, and the
\* threads never all wait for a lock: while a thread has a statement left, some
\* thread can take a step
C35_LocksNeverNested ==
    /\ \A t \in LockThreads : Cardinality(HeldBy(t)) <= 1
    /\ (\E t \in LockThreads : Running(t))
          => \E t \in LockThreads : Running(t) /\ ~Waiting(t)

\* C35 witness: the worker is inside a block on jobs_lock while api_cancel_book
\* is inside a block on books_lock, api_cancel waits for jobs_lock and
\* api_convert waits for books_lock
C35_Witness ==
    /\ an.owner["jobs_lock"] = 1
    /\ an.owner["books_lock"] = 3
    /\ Waiting(2)
    /\ Waiting(4)

(* ------------------------------------------------------------------ *)
(* Properties of the synthesized file                                  *)
(* ------------------------------------------------------------------ *)
\* the audio of segment number i: its chunks in the order of the stream
RECURSIVE SegmentAudio(_, _)
SegmentAudio(i, k) ==
    IF k = 0 THEN <<>> ELSE SegmentAudio(i, k - 1) \o ChunkData(i, k)

\* the audio of segments i..n with one block sep between consecutive segments
RECURSIVE Joined(_, _, _)
Joined(i, n, sep) ==
    IF i > n THEN <<>>
    ELSE IF i = n THEN SegmentAudio(i, an.chunks[i])
    ELSE SegmentAudio(i, an.chunks[i]) \o sep \o Joined(i + 1, n, sep)

\* the pieces of the text that are not blank
SpokenPieces ==
    SelectSeq(Split(an.text, TTS_PAUSE, 1, <<>>),
              LAMBDA s : \E i \in 1..Len(s) : ~IsSpace(s[i]))

\* 63 frames of 192 bytes, each FF F3 64 C4 followed by 188 zero bytes
SilenceBlock ==
    [i \in 1..(63 * 192) |->
        CASE i % 192 = 1 -> 255
          [] i % 192 = 2 -> 243
          [] i % 192 = 3 -> 100
          [] i % 192 = 4 -> 196
          [] OTHER -> 0]

\* C36: the closed output file is the concatenation, in segment order, of the
\* audio chunks of every non-empty trimmed segment with exactly one silence
\* block of 63 x 192 = 12096 bytes (FF F3 64 C4 and 188 zero bytes per frame)
\* between consecutive segments, none before the first or after the last
C36_FileIsJoinedAudio ==
    an.fn = "closed"
        => /\ an.f = Joined(1, Len(SpokenPieces), SilenceBlock)
           /\ Len(SilenceBlock) = 12096

\* C36 witness: a text of three pieces whose middle piece is blank gives a file
\* of two segments with one silence block between their audio
C36_Witness ==
    /\ an.fn = "closed"
    /\ Len(Split(an.text, TTS_PAUSE, 1, <<>>)) = 3
    /\ Len(SpokenPieces) = 2
    /\ an.chunks[1] = 2
    /\ Len(an.f) = 2 * an.chunks[1] + 12096 + 2 * an.chunks[2]

(* ------------------------------------------------------------------ *)
(* Properties of the detection passes                                  *)
(* ------------------------------------------------------------------ *)
\* the chapters that each pass yields for the analysed document
ByTocAlignment == _align_toc_to_boundaries(an.doc)
ByOutline == _extract_via_outline(an.doc)
ByHeadings == _extract_via_headings_only(an.doc, an.doc.boundaries)
ByPageChunks == _extract_via_page_chunks(an.doc)

\* the pass is tried and yields at least two chapters
TocAlignmentYields == Len(an.doc.toc) >= 3 /\ Len(ByTocAlignment) >= 2
OutlineYields == an.doc.outline # <<>> /\ Len(ByOutline) >= 2
HeadingsYield == Len(ByHeadings) >= 2

\* the analysis returned the chapters chs, labelled, with the method m
Returned(chs, m) ==
    /\ an.detected.method = m
    /\ an.detected.chapters = _assign_labels(chs)

\* C37: the analysis of a PDF returns the result of the first pass, in the order
\* TOC alignment (tried only with 3 TOC entries or more), outline, headings,
\* page chunks, that yields at least two chapters, with the detection method
\* toc, toc, headings, auto_sections; a later pass is never used when an
\* earlier one yielded two chapters
C37_FirstPassWins ==
    (an.fn = "analyze" /\ an.detected.ok)
        => /\ TocAlignmentYields => Returned(ByTocAlignment, "toc")
           /\ ~TocAlignmentYields /\ OutlineYields => Returned(ByOutline, "toc")
           /\ ~TocAlignmentYields /\ ~OutlineYields /\ HeadingsYield
                 => Returned(ByHeadings, "headings")
           /\ ~TocAlignmentYields /\ ~OutlineYields /\ ~HeadingsYield
                 => Returned(ByPageChunks, "auto_sections")

\* C37 witness: the outline pass and the heading pass both yield two chapters,
\* different ones, the TOC alignment does not, and the outline's are returned
C37_Witness ==
    /\ an.fn = "analyze" /\ an.detected.ok
    /\ Len(an.doc.toc) >= 3 /\ ~TocAlignmentYields
    /\ OutlineYields /\ HeadingsYield
    /\ _assign_labels(ByOutline) # _assign_labels(ByHeadings)
    /\ Returned(ByOutline, "toc")

\* a table of contents of two entries that would align to two chapters is not
\* aligned: the result comes from a later pass
TwoEntriesNotAligned ==
    /\ an.fn = "analyze" /\ an.detected.ok
    /\ Len(an.doc.toc) = 2 /\ Len(ByTocAlignment) >= 2
    /\ an.detected.chapters # _assign_labels(ByTocAlignment)

\* all three passes yield two chapters and the TOC alignment is returned
AllPassesYield ==
    /\ an.fn = "analyze" /\ an.detected.ok
    /\ TocAlignmentYields /\ OutlineYields /\ HeadingsYield
    /\ Returned(ByTocAlignment, "toc")

\* no pass yields two chapters and the page chunks are returned
NoPassYields ==
    /\ an.fn = "analyze" /\ an.detected.ok
    /\ Len(an.doc.toc) >= 3 /\ an.doc.outline # <<>>
    /\ ~TocAlignmentYields /\ ~OutlineYields /\ ~HeadingsYield
    /\ Returned(ByPageChunks, "auto_sections")

(* ------------------------------------------------------------------ *)
(* Properties of the page chunks                                       *)
(* ------------------------------------------------------------------ *)
\* C38: on a document of N >= 1 pages the page-chunk fallback returns exactly
\* ceil(N / 20) sections; section k has page_start 20 (k - 1) + 1 and page_end
\* min(20 k, N), so the sections are contiguous, do not overlap and cover the
\* pages 1 .. N
C38_PageChunks ==
    an.fn = "_extract_via_page_chunks"
        => LET N == Len(an.doc.pages)
               sections == an.chapters
           IN  /\ Len(sections) = (N + 19) \div 20
               /\ \A k \in 1..Len(sections) :
                     /\ sections[k].page_start = 20 * (k - 1) + 1
                     /\ sections[k].page_end = (IF 20 * k < N THEN 20 * k ELSE N)
               /\ sections[1].page_start = 1
               /\ sections[Len(sections)].page_end = N
               /\ \A k \in 1..(Len(sections) - 1) :
                     sections[k + 1].page_start = sections[k].page_end + 1

\* C38 witness: 83 pages give the sections 1-20, 21-40, 41-60, 61-80 and 81-83
C38_Witness ==
    /\ an.fn = "_extract_via_page_chunks"
    /\ Len(an.doc.pages) = 83
    /\ [k \in 1..Len(an.chapters) |->
           <<an.chapters[k].page_start, an.chapters[k].page_end>>]
          = <<<<1, 20>>, <<21, 40>>, <<41, 60>>, <<61, 80>>, <<81, 83>>>>

(* ------------------------------------------------------------------ *)
(* Properties of the printed table of contents                         *)
(* ------------------------------------------------------------------ *)
\* the pages, counted from 0, among the first 30 that have an anchor line in
\* their first five lines
AnchorPages ==
    {p \in 0..(Len(an.pages) - 1) : p < 30 /\ anchor_page(an.pages[p + 1])}

\* page p, counted from 0, has lines and a quarter of them or more are signals
Continues(p) == continuation_page(an.pages[p + 1])

\* C39: the range of the printed table of contents starts at the first page,
\* among the first 30, with an anchor line in its first five lines; it extends
\* over the following pages only while each has at least 25% of signal lines,
\* and ends at the first page that fails (or is empty); it never has more than 7
\* continuation pages after the anchor page; without an anchor page there is no
\* range
C39_TocRange ==
    an.fn = "_find_toc_pages"
        => IF AnchorPages = {} THEN ~an.result.ok
           ELSE LET r == an.result IN
                /\ r.ok
                /\ r.start \in AnchorPages
                /\ \A p \in AnchorPages : r.start <= p
                /\ r.end > r.start /\ r.end <= Len(an.pages)
                /\ \A p \in (r.start + 1)..(r.end - 1) : Continues(p)
                /\ r.end - r.start - 1 <= 7
                /\ (r.end < Len(an.pages) /\ r.end - r.start - 1 < 7)
                      => ~Continues(r.end)

\* C39 witness: a table of contents followed by more than 7 pages of signals
\* has a range of the anchor page and 7 continuation pages
C39_Witness ==
    /\ an.fn = "_find_toc_pages"
    /\ an.result.ok
    /\ an.result.start = 0 /\ an.result.end = 8
    /\ Len(an.pages) > 8
    /\ Continues(8)

\* the range ends at a page that has one signal in five lines
EndsAtWeakPage ==
    /\ an.fn = "_find_toc_pages" /\ an.result.ok
    /\ an.result.end - an.result.start = 2
    /\ an.result.end < Len(an.pages)
    /\ an.pages[an.result.end + 1] = FifthPage
    /\ an.pages[an.result.end] = QuarterPage

\* an anchor page beyond the first 30 pages is not found
AnchorBeyondScan ==
    /\ an.fn = "_find_toc_pages" /\ ~an.result.ok
    /\ \E p \in 1..Len(an.pages) : anchor_page(an.pages[p])

\* the anchor in the fifth line is found, the one in the sixth line is not
FifthLineFound ==
    /\ an.fn = "_find_toc_pages" /\ an.result.ok
    /\ an.pages[1] = ContentsSixth
    /\ an.pages[2] = ContentsFifth
    /\ an.result.start = 1

(* ------------------------------------------------------------------ *)
(* Properties of the alignment                                         *)
(* ------------------------------------------------------------------ *)
\* every boundary is claimed by one TOC entry at most
BoundaryClaimedOnce ==
    \A i, j \in 1..Len(an.claimed) :
        an.claimed[i].boundary.page = an.claimed[j].boundary.page => i = j

\* C40: a TOC entry of kind chapter is matched by its chapter number only to a
\* boundary of kind chapter, never to a part boundary of the same number, and
\* every boundary is claimed by one TOC entry at most
C40_ChapterMatchesChapter ==
    an.fn = "_align_toc_to_boundaries"
        => /\ \A i \in 1..Len(an.claimed) :
                 (an.claimed[i].entry.kind = "chapter" /\ an.claimed[i].by_number)
                     => an.claimed[i].boundary.kind = "chapter"
           /\ BoundaryClaimedOnce

\* a chapter entry is matched by its number to a chapter boundary although a
\* part boundary of the same number is free
ChapterPreferred ==
    /\ an.fn = "_align_toc_to_boundaries"
    /\ \E i \in 1..Len(an.claimed) :
          /\ an.claimed[i].entry.kind = "chapter" /\ an.claimed[i].by_number
          /\ an.claimed[i].boundary.kind = "chapter"
          /\ \E k \in 1..Len(an.doc.boundaries) :
                /\ an.doc.boundaries[k].kind = "part"
                /\ an.doc.boundaries[k].chapter_number = an.claimed[i].entry.chapter_number

\* a chapter entry is matched by its number to a part boundary while the
\* chapter boundary of that number is free, and the chapter starts on the
\* page of the part heading
PartBoundaryClaimed ==
    /\ an.fn = "_align_toc_to_boundaries"
    /\ \E i \in 1..Len(an.claimed) :
          /\ an.claimed[i].entry.kind = "chapter" /\ an.claimed[i].by_number
          /\ an.claimed[i].boundary.kind = "part"
          /\ \E k \in 1..Len(an.doc.boundaries) :
                /\ an.doc.boundaries[k].kind = "chapter"
                /\ an.doc.boundaries[k].chapter_number = an.claimed[i].entry.chapter_number
                /\ an.doc.boundaries[k].page # an.claimed[i].boundary.page
          /\ \E c \in 1..Len(an.chapters) :
                an.chapters[c].page_start = an.claimed[i].boundary.page + 1
====
